---- MODULE Spec2Model ----
(***************************************************************************)
(* qqmgr: the QMP protocol client (internal/qmp.go) and the VM supervisor  *)
(* (internal/vm/manager.go) as one state machine.                          *)
(*                                                                         *)
(* A process is a goroutine running one call.  Each step of a call is one  *)
(* action, named after the function whose lines it executes; pc[p] is the  *)
(* position of process p and stack[p] the positions it returns to.         *)
(* Time is counted in seconds by countdown timers that the Tick action     *)
(* decrements.                                                             *)
(***************************************************************************)
EXTENDS Integers, Sequences, FiniteSets, TLC

VARIABLES
    \* ---- QMPClient (one client object at a time) and its socket
    conn,        \* q.conn (with q.reader, q.writer): "nil" or "open"
    mu,          \* q.mu: the process holding it, or None
    events,      \* q.events
    toClient,    \* lines the server has written and the client has not read
    toServer,    \* command lines written and not yet handled by the server
    peerClosed,  \* the server's end of the connection is closed
    sent,        \* history: every command line flushed to the socket
    nLines,      \* history: number of unsolicited lines the server has sent
    arrived,     \* history: names of the event lines read since the last drain
    \* ---- processes
    pc, stack, cmd, res, ctx, ops, lastOp, myTag,
    \* ---- Shutdown / shutdown
    sdArgs,      \* Shutdown's arguments [interval, timeout, force]
    phase,       \* "none", "graceful" or "force": which call of shutdown runs
    left,        \* seconds until shutdown's deadline
    waitLeft,    \* seconds until time.After(checkInterval) fires
    sdRet,       \* what shutdown returned: [ok, err]
    sdResult,    \* what Shutdown returned: [ok, err], or None
    \* ---- filesystem, processes, supervisor
    files,       \* the runtime artifact files that exist
    pidContent,  \* content of the PID file (a string as a sequence of characters)
    unreadable,  \* reading the PID file fails with an error other than "not exist"
    unremovable, \* files whose removal fails with an error other than "not exist"
    listening,   \* a server accepts connections on the control socket
    alive,       \* PIDs of existing processes
    foreign,     \* PIDs this user may not signal
    vmPid,       \* PID of the VM process
    status,      \* the Status GetStatus built (pid 0 is the nil PID), its error,
                 \* and history: Connect's error and the reply IsRunning got
    stopArgs,    \* Stop's arguments [timeout, force], whether its context has a
                 \* deadline, and history: the files present when it was called
    stopResult,  \* what Stop returned: [ok, err], or None
    ctxLeft,     \* seconds until the context's deadline, or NoDeadline
    kills,       \* history: [pid, ok] for every SIGKILL sent
    probes,      \* history: PIDs an existence check was sent to
    dials,       \* history: number of net.Dial calls
    stopLog      \* history: one record for every Stop call that has returned

vars == <<conn, mu, events, toClient, toServer, peerClosed, sent, nLines, arrived,
          pc, stack, cmd, res, ctx, ops, lastOp, myTag,
          sdArgs, phase, left, waitLeft, sdRet, sdResult,
          files, pidContent, unreadable, unremovable, listening, alive, foreign, vmPid,
          status, stopArgs, stopResult, ctxLeft, kills, probes, dials, stopLog>>

clientVars == <<conn, mu, events, toClient, toServer, peerClosed, sent, nLines, arrived>>
procVars   == <<pc, stack, cmd, res, ctx, ops, lastOp, myTag>>
sdVars     == <<sdArgs, phase, left, waitLeft, sdRet, sdResult>>
osVars     == <<files, pidContent, unreadable, unremovable, listening, alive, foreign, vmPid>>
mgrVars    == <<status, stopArgs, stopResult, ctxLeft, kills, probes, dials, stopLog>>

None   == "none"
Absent == "absent"

\* ------------------------------------------------------------------ bounds
NCallers  == 2   \* concurrent callers of one client
MaxOps    == 2   \* calls each caller makes
MaxLines  == 2   \* unsolicited lines a server sends on one connection
MaxInbox  == 3   \* unread lines buffered at the client
MaxTimeout  == 2 \* largest timeout (seconds) a caller passes
MaxInterval == 2 \* largest poll interval (seconds) a caller passes
MaxStops    == 2 \* Stop calls made on one VM

CallerName == <<"c1", "c2", "c3", "c4">>
Callers == {CallerName[i] : i \in 1..NCallers}
Procs   == Callers \cup {"sd", "mgr"}

\* ------------------------------------------------------------------ wire
\* A line on the socket, by the JSON it holds: js = it is a JSON object; ret = the
\* value of its "return" member; er = it has an "error" member; ev = the JSON type
\* of its "event" member; name = the event's name.  tag is history: the command
\* the server answered with this line (who wrote it, as which of its calls).
NoTag == [by |-> None, n |-> 0]
NoLine == [js |-> FALSE, ret |-> Absent, er |-> FALSE, ev |-> Absent, name |-> Absent, tag |-> NoTag]
ReturnLine(payload, tag) == [NoLine EXCEPT !.js = TRUE, !.ret = payload, !.tag = tag]
ErrorLine(tag)     == [NoLine EXCEPT !.js = TRUE, !.er = TRUE, !.tag = tag]
\* {"event": "<name>", "data": {...}, "timestamp": {...}}
EventLine(name)    == [NoLine EXCEPT !.js = TRUE, !.ev = "string", !.name = name]
\* {"event": {"event": "<name>"}}
EventObjLine(name) == [NoLine EXCEPT !.js = TRUE, !.ev = "object", !.name = name]
\* {"QMP": {"version": ..., "capabilities": [...]}}
GreetingLine       == [NoLine EXCEPT !.js = TRUE]
GarbageLine        == NoLine

EventNames == {"SHUTDOWN", "STOP"}
Commands   == {"qmp_capabilities", "query-status", "system_powerdown", "quit"}

\* The "return" payloads a server gives a command.
Payloads(c) ==
    IF c = "query-status"
    THEN {"running:true", "running:false", "running:string", "list"}
    ELSE {"{}"}

\* json.Unmarshal([]byte(line), &response) into QMPResponse: the member "event"
\* is decoded into a *QMPEvent, a struct, so a JSON string there is a type error.
Unmarshal(line) ==
    [err    |-> (~line.js) \/ line.ev = "string",
     Return |-> line.ret,
     Error  |-> line.er,
     Event  |-> IF line.ev = "object" THEN line.name ELSE Absent]

NoRes == [err |-> "nil", line |-> NoLine, evs |-> <<>>, b |-> FALSE]
NoSdRet == [ok |-> FALSE, err |-> "nil"]
NoResult == [done |-> FALSE, ok |-> FALSE, err |-> "nil"]
NoStatus ==
    [pid |-> 0, running |-> FALSE, alive |-> FALSE, qmpConnected |-> FALSE,
     err |-> "nil", connErr |-> None, reply |-> NoRes, done |-> FALSE]

\* ------------------------------------------------------------------ control
Goto(p, l) == pc' = [pc EXCEPT ![p] = l]
Call(p, entry, back) ==
    /\ pc' = [pc EXCEPT ![p] = entry]
    /\ stack' = [stack EXCEPT ![p] = <<back>> \o stack[p]]
Return(p) ==
    /\ pc' = [pc EXCEPT ![p] = Head(stack[p])]
    /\ stack' = [stack EXCEPT ![p] = Tail(stack[p])]
SetErr(p, e) == res' = [res EXCEPT ![p] = [NoRes EXCEPT !.err = e]]

\* ------------------------------------------------------------------ QMPClient
\* The write-command-then-read-response section of sendCommandInternal.
InSection(p) == pc[p] \in {"sendCommandInternal", "getResponse", "ReadString"}

\* SendCommand: q.mu.Lock(); defer q.mu.Unlock(); sendCommandInternal(ctx, cmd)
SendCommand_NoLock(p) ==
    /\ pc[p] = "SendCommand"
    /\ mu' = p
    /\ Call(p, "sendCommandInternal", "SendCommand_unlock")
    /\ UNCHANGED <<conn, events, toClient, toServer, peerClosed, sent, nLines, arrived>>
    /\ UNCHANGED <<cmd, res, ctx, ops, lastOp, myTag>>
    /\ UNCHANGED <<sdVars, osVars, mgrVars>>

SendCommand(p) ==
    /\ pc[p] = "SendCommand"
    /\ mu = None
    /\ mu' = p
    /\ Call(p, "sendCommandInternal", "SendCommand_unlock")
    /\ UNCHANGED <<conn, events, toClient, toServer, peerClosed, sent, nLines, arrived>>
    /\ UNCHANGED <<cmd, res, ctx, ops, lastOp, myTag>>
    /\ UNCHANGED <<sdVars, osVars, mgrVars>>

\* the deferred q.mu.Unlock() of SendCommand
SendCommand_unlock(p) ==
    /\ pc[p] = "SendCommand_unlock"
    /\ mu' = None
    /\ Return(p)
    /\ UNCHANGED <<conn, events, toClient, toServer, peerClosed, sent, nLines, arrived>>
    /\ UNCHANGED <<cmd, res, ctx, ops, lastOp, myTag>>
    /\ UNCHANGED <<sdVars, osVars, mgrVars>>

\* sendCommandInternal writing without the connection check
sendCommandInternal_NoCheck(p) ==
    /\ pc[p] = "sendCommandInternal"
    /\ IF peerClosed
       THEN /\ SetErr(p, "failed to flush command: broken pipe")
            /\ Return(p)
            /\ UNCHANGED <<toServer, sent, myTag>>
       ELSE LET tag == [by |-> p, n |-> ops[p]] IN
            /\ toServer' = Append(toServer, [cmd |-> cmd[p], tag |-> tag])
            /\ sent' = Append(sent, cmd[p])
            /\ myTag' = [myTag EXCEPT ![p] = tag]
            /\ Goto(p, "getResponse")
            /\ UNCHANGED <<res, stack>>
    /\ UNCHANGED <<conn, mu, events, toClient, peerClosed, nLines, arrived>>
    /\ UNCHANGED <<cmd, ctx, ops, lastOp>>
    /\ UNCHANGED <<sdVars, osVars, mgrVars>>

\* sendCommandInternal up to the flush: the connection check, Write and Flush.
\* A write to a socket whose peer has closed fails with EPIPE.
sendCommandInternal(p) ==
    /\ pc[p] = "sendCommandInternal"
    /\ IF conn = "nil"
       THEN /\ SetErr(p, "not connected")
            /\ Return(p)
            /\ UNCHANGED <<toServer, sent, myTag>>
       ELSE IF peerClosed
       THEN /\ SetErr(p, "failed to flush command: broken pipe")
            /\ Return(p)
            /\ UNCHANGED <<toServer, sent, myTag>>
       ELSE LET tag == [by |-> p, n |-> ops[p]] IN
            /\ toServer' = Append(toServer, [cmd |-> cmd[p], tag |-> tag])
            /\ sent' = Append(sent, cmd[p])
            /\ myTag' = [myTag EXCEPT ![p] = tag]
            /\ Goto(p, "getResponse")
            /\ UNCHANGED <<res, stack>>
    /\ UNCHANGED <<conn, mu, events, toClient, peerClosed, nLines, arrived>>
    /\ UNCHANGED <<cmd, ctx, ops, lastOp>>
    /\ UNCHANGED <<sdVars, osVars, mgrVars>>

\* getResponse, the head of the loop: select { case <-ctx.Done(): ...; default: }
getResponse(p) ==
    /\ pc[p] = "getResponse"
    /\ IF ctx[p] # "live"
       THEN SetErr(p, ctx[p]) /\ Return(p)
       ELSE Goto(p, "ReadString") /\ UNCHANGED <<res, stack>>
    /\ UNCHANGED clientVars
    /\ UNCHANGED <<cmd, ctx, ops, lastOp, myTag>>
    /\ UNCHANGED <<sdVars, osVars, mgrVars>>

\* getResponse, the rest of the loop body: the blocking q.reader.ReadString and
\* the classification of the line read.
ReadString(p) ==
    /\ pc[p] = "ReadString"
    /\ \/ /\ toClient # <<>>
          /\ toClient' = Tail(toClient)
          /\ LET line == Head(toClient)
                 response == Unmarshal(line) IN
             /\ arrived' = IF line.js /\ line.ev # Absent
                           THEN Append(arrived, line.name) ELSE arrived
             /\ IF response.err
                THEN /\ res' = [res EXCEPT ![p] =
                                  [NoRes EXCEPT !.err = "failed to parse response", !.line = line]]
                     /\ Return(p)
                     /\ UNCHANGED events
                ELSE IF response.Event # Absent
                THEN /\ events' = Append(events, response.Event)
                     /\ Goto(p, "getResponse")
                     /\ UNCHANGED <<res, stack>>
                ELSE IF response.Return # Absent \/ response.Error
                THEN /\ res' = [res EXCEPT ![p] = [NoRes EXCEPT !.line = line]]
                     /\ Return(p)
                     /\ UNCHANGED events
                ELSE /\ SetErr(p, "unknown QMP message type")
                     /\ Return(p)
                     /\ UNCHANGED events
       \/ /\ toClient = <<>>
          /\ peerClosed
          /\ \E e \in {"connection closed by server",
                        "failed to read response: connection reset by peer"} :
                SetErr(p, e)
          /\ Return(p)
          /\ UNCHANGED <<events, toClient, arrived>>
    /\ UNCHANGED <<conn, mu, toServer, peerClosed, sent, nLines>>
    /\ UNCHANGED <<cmd, ctx, ops, lastOp, myTag>>
    /\ UNCHANGED <<sdVars, osVars, mgrVars>>

\* GetEvents returning the copy without truncating the buffer
GetEvents_NoClear(p) ==
    /\ pc[p] = "GetEvents"
    /\ res' = [res EXCEPT ![p] = [NoRes EXCEPT !.evs = events]]
    /\ arrived' = <<>>
    /\ Return(p)
    /\ UNCHANGED <<conn, mu, events, toClient, toServer, peerClosed, sent, nLines>>
    /\ UNCHANGED <<cmd, ctx, ops, lastOp, myTag>>
    /\ UNCHANGED <<sdVars, osVars, mgrVars>>

\* GetEvents: copy q.events, truncate it, return the copy (under q.eventsMu)
GetEvents(p) ==
    /\ pc[p] = "GetEvents"
    /\ res' = [res EXCEPT ![p] = [NoRes EXCEPT !.evs = events]]
    /\ events' = <<>>
    /\ arrived' = <<>>
    /\ Return(p)
    /\ UNCHANGED <<conn, mu, toClient, toServer, peerClosed, sent, nLines>>
    /\ UNCHANGED <<cmd, ctx, ops, lastOp, myTag>>
    /\ UNCHANGED <<sdVars, osVars, mgrVars>>

\* Connected reading q.conn without taking q.mu
Connected_NoLock(p) ==
    /\ pc[p] = "Connected"
    /\ res' = [res EXCEPT ![p] = [NoRes EXCEPT !.b = (conn # "nil")]]
    /\ Return(p)
    /\ UNCHANGED clientVars
    /\ UNCHANGED <<cmd, ctx, ops, lastOp, myTag>>
    /\ UNCHANGED <<sdVars, osVars, mgrVars>>

\* Connected: q.conn != nil, under q.mu
Connected(p) ==
    /\ pc[p] = "Connected"
    /\ mu = None
    /\ res' = [res EXCEPT ![p] = [NoRes EXCEPT !.b = (conn # "nil")]]
    /\ Return(p)
    /\ UNCHANGED clientVars
    /\ UNCHANGED <<cmd, ctx, ops, lastOp, myTag>>
    /\ UNCHANGED <<sdVars, osVars, mgrVars>>

\* closeConnection: if q.conn != nil, close it and set conn, reader, writer to
\* nil.  Closing the socket discards what was in flight in both directions.
closeConnection ==
    IF conn = "nil"
    THEN UNCHANGED <<conn, toClient, toServer, peerClosed, nLines>>
    ELSE /\ conn' = "nil"
         /\ toClient' = <<>>
         /\ toServer' = <<>>
         /\ peerClosed' = FALSE
         /\ nLines' = 0

\* Close keeping the connection when closing the socket reports an error
Close_KeepOnError(p) ==
    /\ pc[p] = "Close"
    /\ mu = None
    /\ \/ closeConnection /\ SetErr(p, "nil")
       \/ /\ conn # "nil"
          /\ SetErr(p, "close failed")
          /\ UNCHANGED <<conn, toClient, toServer, peerClosed, nLines>>
    /\ Return(p)
    /\ UNCHANGED <<mu, events, sent, arrived>>
    /\ UNCHANGED <<cmd, ctx, ops, lastOp, myTag>>
    /\ UNCHANGED <<sdVars, osVars, mgrVars>>

\* Close: closeConnection under q.mu; returns the error of conn.Close()
Close(p) ==
    /\ pc[p] = "Close"
    /\ mu = None
    /\ closeConnection
    /\ IF conn = "nil"
       THEN SetErr(p, "nil")
       ELSE \E e \in {"nil", "close failed"} : SetErr(p, e)
    /\ Return(p)
    /\ UNCHANGED <<mu, events, sent, arrived>>
    /\ UNCHANGED <<cmd, ctx, ops, lastOp, myTag>>
    /\ UNCHANGED <<sdVars, osVars, mgrVars>>

\* Connect: q.mu.Lock(); defer q.mu.Unlock()
Connect(p) ==
    /\ pc[p] = "Connect"
    /\ mu = None
    /\ mu' = p
    /\ Call(p, "Connect_stat", "Connect_unlock")
    /\ UNCHANGED <<conn, events, toClient, toServer, peerClosed, sent, nLines, arrived>>
    /\ UNCHANGED <<cmd, res, ctx, ops, lastOp, myTag>>
    /\ UNCHANGED <<sdVars, osVars, mgrVars>>

\* the deferred q.mu.Unlock() of Connect
Connect_unlock(p) ==
    /\ pc[p] = "Connect_unlock"
    /\ mu' = None
    /\ Return(p)
    /\ UNCHANGED <<conn, events, toClient, toServer, peerClosed, sent, nLines, arrived>>
    /\ UNCHANGED <<cmd, res, ctx, ops, lastOp, myTag>>
    /\ UNCHANGED <<sdVars, osVars, mgrVars>>

\* Connect dialing without looking for the socket file first
Connect_stat_NoStat(p) ==
    /\ pc[p] = "Connect_stat"
    /\ IF conn # "nil"
       THEN SetErr(p, "nil") /\ Return(p)
       ELSE Goto(p, "Connect_dial") /\ UNCHANGED <<res, stack>>
    /\ UNCHANGED clientVars
    /\ UNCHANGED <<cmd, ctx, ops, lastOp, myTag>>
    /\ UNCHANGED <<sdVars, osVars, mgrVars>>

\* Connect: if q.conn != nil return nil; os.Stat(q.socketPath)
Connect_stat(p) ==
    /\ pc[p] = "Connect_stat"
    /\ IF conn # "nil"
       THEN SetErr(p, "nil") /\ Return(p)
       ELSE IF "qmp" \notin files
       THEN SetErr(p, "not found") /\ Return(p)
       ELSE Goto(p, "Connect_dial") /\ UNCHANGED <<res, stack>>
    /\ UNCHANGED clientVars
    /\ UNCHANGED <<cmd, ctx, ops, lastOp, myTag>>
    /\ UNCHANGED <<sdVars, osVars, mgrVars>>

\* Connect: net.Dial("unix", q.socketPath); on success set conn, reader, writer.
\* The server writes its greeting (or something else, or nothing) on accept.
Connect_dial(p) ==
    /\ pc[p] = "Connect_dial"
    /\ \/ /\ "qmp" \in files /\ listening
          /\ conn' = "open"
          /\ toClient' \in {<<GreetingLine>>, <<GarbageLine>>, <<>>}
          /\ toServer' = <<>>
          /\ peerClosed' = FALSE
          /\ nLines' = 0
          /\ dials' = dials + 1
          /\ Goto(p, "readGreeting")
          /\ UNCHANGED <<res, stack>>
       \/ /\ "qmp" \in files
          /\ SetErr(p, "permissions")
          /\ Return(p)
          /\ dials' = dials + 1
          /\ UNCHANGED <<conn, toClient, toServer, peerClosed, nLines>>
       \/ /\ ~("qmp" \in files /\ listening)
          /\ SetErr(p, "failed to connect")
          /\ Return(p)
          /\ dials' = dials + 1
          /\ UNCHANGED <<conn, toClient, toServer, peerClosed, nLines>>
    /\ UNCHANGED <<mu, events, sent, arrived>>
    /\ UNCHANGED <<cmd, ctx, ops, lastOp, myTag>>
    /\ UNCHANGED <<sdVars, osVars>>
    /\ UNCHANGED <<status, stopArgs, stopResult, ctxLeft, kills, probes, stopLog>>

\* Connect returning a greeting failure without closeConnection
readGreeting_NoClose(p) ==
    /\ pc[p] = "readGreeting"
    /\ \/ /\ toClient # <<>>
          /\ IF Head(toClient).js
             THEN /\ toClient' = Tail(toClient)
                  /\ cmd' = [cmd EXCEPT ![p] = "qmp_capabilities"]
                  /\ Call(p, "sendCommandInternal", "Connect_caps")
                  /\ UNCHANGED res
             ELSE /\ SetErr(p, "failed to read QMP greeting")
                  /\ Return(p)
                  /\ UNCHANGED <<cmd, toClient>>
       \/ /\ toClient = <<>>
          /\ peerClosed
          /\ SetErr(p, "failed to read QMP greeting")
          /\ Return(p)
          /\ UNCHANGED <<cmd, toClient>>
    /\ UNCHANGED <<conn, toServer, peerClosed, nLines>>
    /\ UNCHANGED <<mu, events, sent, arrived>>
    /\ UNCHANGED <<ctx, ops, lastOp, myTag>>
    /\ UNCHANGED <<sdVars, osVars, mgrVars>>

\* Connect: readGreeting (one blocking ReadString, parsed as a JSON object); on
\* failure closeConnection; on success sendCommandInternal(qmp_capabilities)
readGreeting(p) ==
    /\ pc[p] = "readGreeting"
    /\ \/ /\ toClient # <<>>
          /\ IF Head(toClient).js
             THEN /\ toClient' = Tail(toClient)
                  /\ cmd' = [cmd EXCEPT ![p] = "qmp_capabilities"]
                  /\ Call(p, "sendCommandInternal", "Connect_caps")
                  /\ UNCHANGED <<conn, toServer, peerClosed, nLines, res>>
             ELSE /\ closeConnection
                  /\ SetErr(p, "failed to read QMP greeting")
                  /\ Return(p)
                  /\ UNCHANGED cmd
       \/ /\ toClient = <<>>
          /\ peerClosed
          /\ closeConnection
          /\ SetErr(p, "failed to read QMP greeting")
          /\ Return(p)
          /\ UNCHANGED cmd
    /\ UNCHANGED <<mu, events, sent, arrived>>
    /\ UNCHANGED <<ctx, ops, lastOp, myTag>>
    /\ UNCHANGED <<sdVars, osVars, mgrVars>>

\* Connect, after sendCommandInternal returned: if err != nil closeConnection
\* and return the error, else return nil
Connect_caps(p) ==
    /\ pc[p] = "Connect_caps"
    /\ IF res[p].err # "nil"
       THEN /\ closeConnection
            /\ SetErr(p, "failed to send qmp_capabilities")
       ELSE /\ SetErr(p, "nil")
            /\ UNCHANGED <<conn, toClient, toServer, peerClosed, nLines>>
    /\ Return(p)
    /\ UNCHANGED <<mu, events, sent, arrived>>
    /\ UNCHANGED <<cmd, ctx, ops, lastOp, myTag>>
    /\ UNCHANGED <<sdVars, osVars, mgrVars>>

\* ------------------------------------------------------------------ server
\* The server takes the oldest command line and answers it with one response.
ServerRespond ==
    /\ conn = "open" /\ ~peerClosed
    /\ toServer # <<>>
    /\ Len(toClient) < MaxInbox
    /\ LET c == Head(toServer) IN
       \E line \in {ReturnLine(pl, c.tag) : pl \in Payloads(c.cmd)} \cup {ErrorLine(c.tag)} :
          toClient' = Append(toClient, line)
    /\ toServer' = Tail(toServer)
    /\ UNCHANGED <<conn, mu, events, peerClosed, sent, nLines, arrived>>
    /\ UNCHANGED <<procVars, sdVars, osVars, mgrVars>>

\* The server sends a line that answers no command.
ServerSend(line) ==
    /\ conn = "open" /\ ~peerClosed
    /\ nLines < MaxLines
    /\ Len(toClient) < MaxInbox
    /\ toClient' = Append(toClient, line)
    /\ nLines' = nLines + 1
    /\ UNCHANGED <<conn, mu, events, toServer, peerClosed, sent, arrived>>
    /\ UNCHANGED <<procVars, sdVars, osVars, mgrVars>>

\* an event in the wire format
ServerEvent == \E n \in EventNames : ServerSend(EventLine(n))
\* a line whose "event" member is an object
ServerEventObj == \E n \in EventNames : ServerSend(EventObjLine(n))
\* a line that is no JSON, or a JSON object without return, error and event
ServerJunk == \E l \in {GarbageLine, GreetingLine} : ServerSend(l)

\* The server closes its end of the connection.
ServerClose ==
    /\ conn = "open" /\ ~peerClosed
    /\ peerClosed' = TRUE
    /\ toServer' = <<>>
    /\ UNCHANGED <<conn, mu, events, toClient, sent, nLines, arrived>>
    /\ UNCHANGED <<procVars, sdVars, osVars, mgrVars>>

\* The caller's context is cancelled.
Cancel(p) ==
    /\ ctx[p] = "live"
    /\ pc[p] \notin {"idle", "off", "done"}
    /\ ctx' = [ctx EXCEPT ![p] = "context canceled"]
    /\ UNCHANGED clientVars
    /\ UNCHANGED <<pc, stack, cmd, res, ops, lastOp, myTag>>
    /\ UNCHANGED <<sdVars, osVars, mgrVars>>

\* ------------------------------------------------------------------ Shutdown
ForceTimeout == 5

\* The phrases shutdown looks for that an error message contains.
ErrPhrases(e) ==
    CASE e = "connection closed by server" -> {"connection closed"}
      [] e = "failed to flush command: broken pipe" -> {"broken pipe"}
      [] e = "failed to read response: connection reset by peer" -> {"connection reset"}
      [] OTHER -> {}

\* strings.Contains(err.Error(), "connection closed") || ... "broken pipe" || ...
\* "connection reset"
isConnBroken_OnlyClosed(e) == ErrPhrases(e) \cap {"connection closed"} # {}

isConnBroken(e) ==
    ErrPhrases(e) \cap {"connection closed", "broken pipe", "connection reset"} # {}

\* Shutdown: success, err := q.shutdown(ctx, checkInterval, timeout, false);
\* shutdown: deadline := time.Now().Add(timeout)
Shutdown(p) ==
    /\ pc[p] = "Shutdown"
    /\ phase' = "graceful"
    /\ left' = sdArgs.timeout
    /\ Goto(p, "shutdown_loop")
    /\ UNCHANGED <<sdArgs, waitLeft, sdRet, sdResult>>
    /\ UNCHANGED <<stack, cmd, res, ctx, ops, lastOp, myTag>>
    /\ UNCHANGED <<clientVars, osVars, mgrVars>>

\* shutdown: for time.Now().Before(deadline) { ... }; return false, nil
shutdown_loop(p) ==
    /\ pc[p] = "shutdown_loop"
    /\ IF left > 0
       THEN Goto(p, "shutdown_ctx") /\ UNCHANGED sdRet
       ELSE Goto(p, "Shutdown_after") /\ sdRet' = [ok |-> FALSE, err |-> "nil"]
    /\ UNCHANGED <<sdArgs, phase, left, waitLeft, sdResult>>
    /\ UNCHANGED <<stack, cmd, res, ctx, ops, lastOp, myTag>>
    /\ UNCHANGED <<clientVars, osVars, mgrVars>>

\* shutdown: select { case <-ctx.Done(): return false, ctx.Err(); default: };
\* q.SendCommand(ctx, {"execute": forceCmd})
shutdown_ctx(p) ==
    /\ pc[p] = "shutdown_ctx"
    /\ IF ctx[p] # "live"
       THEN /\ sdRet' = [ok |-> FALSE, err |-> ctx[p]]
            /\ Goto(p, "Shutdown_after")
            /\ UNCHANGED <<cmd, stack>>
       ELSE /\ cmd' = [cmd EXCEPT ![p] = IF phase = "force" THEN "quit" ELSE "system_powerdown"]
            /\ Call(p, "SendCommand", "shutdown_check")
            /\ UNCHANGED sdRet
    /\ UNCHANGED <<sdArgs, phase, left, waitLeft, sdResult>>
    /\ UNCHANGED <<res, ctx, ops, lastOp, myTag>>
    /\ UNCHANGED <<clientVars, osVars, mgrVars>>

\* shutdown: if err != nil and the error says the connection is broken, return
\* true, nil; otherwise start the timer of time.After(checkInterval)
shutdown_check(p) ==
    /\ pc[p] = "shutdown_check"
    /\ IF res[p].err # "nil" /\ isConnBroken(res[p].err)
       THEN /\ sdRet' = [ok |-> TRUE, err |-> "nil"]
            /\ Goto(p, "Shutdown_after")
            /\ UNCHANGED waitLeft
       ELSE /\ waitLeft' = sdArgs.interval
            /\ Goto(p, "shutdown_wait")
            /\ UNCHANGED sdRet
    /\ UNCHANGED <<sdArgs, phase, left, sdResult>>
    /\ UNCHANGED <<stack, cmd, res, ctx, ops, lastOp, myTag>>
    /\ UNCHANGED <<clientVars, osVars, mgrVars>>

\* shutdown: select { case <-time.After(checkInterval): case <-ctx.Done():
\* return false, ctx.Err() }
shutdown_wait(p) ==
    /\ pc[p] = "shutdown_wait"
    /\ \/ /\ waitLeft = 0
          /\ Goto(p, "shutdown_loop")
          /\ UNCHANGED sdRet
       \/ /\ ctx[p] # "live"
          /\ sdRet' = [ok |-> FALSE, err |-> ctx[p]]
          /\ Goto(p, "Shutdown_after")
    /\ UNCHANGED <<sdArgs, phase, left, waitLeft, sdResult>>
    /\ UNCHANGED <<stack, cmd, res, ctx, ops, lastOp, myTag>>
    /\ UNCHANGED <<clientVars, osVars, mgrVars>>

\* Shutdown, after a call of shutdown returned: the graceful call's error or
\* success is returned; else, if forceAfterTimeout, shutdown(ctx, checkInterval,
\* 5*time.Second, true) is called and its result returned; else false, nil
Shutdown_after_AlwaysForce(p) ==
    /\ pc[p] = "Shutdown_after"
    /\ IF phase = "graceful" /\ sdRet.err = "nil" /\ ~sdRet.ok
       THEN /\ phase' = "force"
            /\ left' = ForceTimeout
            /\ Goto(p, "shutdown_loop")
            /\ UNCHANGED <<sdResult, stack>>
       ELSE /\ sdResult' = [done |-> TRUE, ok |-> sdRet.ok, err |-> sdRet.err]
            /\ Return(p)
            /\ UNCHANGED <<phase, left>>
    /\ UNCHANGED <<sdArgs, waitLeft, sdRet>>
    /\ UNCHANGED <<cmd, res, ctx, ops, lastOp, myTag>>
    /\ UNCHANGED <<clientVars, osVars, mgrVars>>

Shutdown_after(p) ==
    /\ pc[p] = "Shutdown_after"
    /\ IF phase = "graceful" /\ sdRet.err = "nil" /\ ~sdRet.ok /\ sdArgs.force
       THEN /\ phase' = "force"
            /\ left' = ForceTimeout
            /\ Goto(p, "shutdown_loop")
            /\ UNCHANGED <<sdResult, stack>>
       ELSE /\ sdResult' = [done |-> TRUE, ok |-> sdRet.ok, err |-> sdRet.err]
            /\ Return(p)
            /\ UNCHANGED <<phase, left>>
    /\ UNCHANGED <<sdArgs, waitLeft, sdRet>>
    /\ UNCHANGED <<cmd, res, ctx, ops, lastOp, myTag>>
    /\ UNCHANGED <<clientVars, osVars, mgrVars>>

ShutdownStep(p) ==
    \/ Shutdown(p)
    \/ shutdown_loop(p)
    \/ shutdown_ctx(p)
    \/ shutdown_check(p)
    \/ shutdown_wait(p)
    \/ Shutdown_after(p)

Dec(n) == IF n > 0 THEN n - 1 ELSE n

\* One second passes while a call is under way: every running timer and
\* deadline comes a second closer; a context whose deadline is reached is done.
Tick ==
    /\ \E p \in Procs : pc[p] \notin {"off", "idle", "done", "StopReturned"}
    /\ left > 0 \/ waitLeft > 0 \/ ctxLeft > 0
    /\ left' = Dec(left)
    /\ waitLeft' = Dec(waitLeft)
    /\ ctxLeft' = Dec(ctxLeft)
    /\ ctx' = IF ctxLeft = 1 /\ ctx["mgr"] = "live"
              THEN [ctx EXCEPT !["mgr"] = "context deadline exceeded"]
              ELSE ctx
    /\ UNCHANGED <<sdArgs, phase, sdRet, sdResult>>
    /\ UNCHANGED <<pc, stack, cmd, res, ops, lastOp, myTag>>
    /\ UNCHANGED <<status, stopArgs, stopResult, kills, probes, dials, stopLog>>
    /\ UNCHANGED <<clientVars, osVars>>

\* ------------------------------------------------------------------ Manager
MaxPID == 8388608

RuntimeFiles == <<"pid", "serial", "qmp", "monitor", "ssh">>

IsSpace(c) == c \in {" ", "\n", "\t", "\r"}
IsDigit(c) == c \in {"0", "1", "2", "3", "4", "5", "6", "7", "8", "9"}
DigitVal(c) ==
    CASE c = "0" -> 0 [] c = "1" -> 1 [] c = "2" -> 2 [] c = "3" -> 3 [] c = "4" -> 4
      [] c = "5" -> 5 [] c = "6" -> 6 [] c = "7" -> 7 [] c = "8" -> 8 [] c = "9" -> 9

RECURSIVE TrimLeft(_)
TrimLeft(s) == IF s # <<>> /\ IsSpace(Head(s)) THEN TrimLeft(Tail(s)) ELSE s

RECURSIVE TrimRight(_)
TrimRight(s) ==
    IF s # <<>> /\ IsSpace(s[Len(s)]) THEN TrimRight(SubSeq(s, 1, Len(s) - 1)) ELSE s

\* strings.TrimSpace
TrimSpace(s) == TrimRight(TrimLeft(s))

RECURSIVE DigitsVal(_)
DigitsVal(s) ==
    IF s = <<>> THEN 0
    ELSE 10 * DigitsVal(SubSeq(s, 1, Len(s) - 1)) + DigitVal(s[Len(s)])

RECURSIVE TrimZeros(_)
TrimZeros(s) == IF s # <<>> /\ Head(s) = "0" THEN TrimZeros(Tail(s)) ELSE s

\* the decimal digits of the largest int (64 bits), and of the magnitude of the
\* smallest
MaxIntDigits ==
    <<"9", "2", "2", "3", "3", "7", "2", "0", "3", "6",
      "8", "5", "4", "7", "7", "5", "8", "0", "7">>
MinIntDigits == [MaxIntDigits EXCEPT ![Len(MaxIntDigits)] = "8"]

\* a > b for numerals without leading zeros
NumeralGreater(a, b) ==
    \/ Len(a) > Len(b)
    \/ /\ Len(a) = Len(b)
       /\ \E i \in 1..Len(a) :
            /\ DigitVal(a[i]) > DigitVal(b[i])
            /\ \A j \in 1..(i - 1) : a[j] = b[j]

\* strconv.Atoi: an optional sign, then one or more decimal digits; a value
\* that does not fit an int is an error (ErrRange). A value of more than seven
\* digits is represented by MaxPID + 1: readPIDFile only compares it with 0
\* and with the limit.
Atoi(s) ==
    LET signed == s # <<>> /\ Head(s) \in {"+", "-"}
        neg == s # <<>> /\ Head(s) = "-"
        body == IF signed THEN Tail(s) ELSE s
        syntax == body # <<>> /\ \A i \in 1..Len(body) : IsDigit(body[i])
        digits == IF syntax THEN TrimZeros(body) ELSE <<>>
        fits == ~NumeralGreater(digits, IF neg THEN MinIntDigits ELSE MaxIntDigits)
        mag == IF Len(digits) > 7 THEN MaxPID + 1 ELSE DigitsVal(digits)
    IN  [ok |-> syntax /\ fits,
         val |-> IF ~(syntax /\ fits) THEN 0 ELSE IF neg THEN 0 - mag ELSE mag]

\* readPIDFile: the PID (0 for nil) and the error
readPIDFile ==
    IF "pid" \notin files THEN [pid |-> 0, err |-> "nil"]
    ELSE IF unreadable THEN [pid |-> 0, err |-> "failed to read PID file"]
    ELSE IF pidContent = <<>> THEN [pid |-> 0, err |-> "nil"]
    ELSE LET a == Atoi(TrimSpace(pidContent)) IN
         IF ~a.ok THEN [pid |-> 0, err |-> "invalid PID in file"]
         ELSE IF a.val <= 0 \/ a.val > MaxPID
         THEN [pid |-> 0, err |-> "PID is out of reasonable range"]
         ELSE [pid |-> a.val, err |-> "nil"]

\* syscall.Kill(pid, 0) == nil
KillZero(pid) == pid \in alive /\ pid \notin foreign

\* isProcessRunning
isProcessRunning(pid) == pid # 0 /\ KillZero(pid)

\* CheckStatus on the result r of SendCommand(query-status): an error if the
\* command failed, the response is an error response, or the payload is no
\* JSON object; else the payload
CheckStatus(r) ==
    [err |-> r.err # "nil" \/ r.line.er \/ r.line.ret = "list", status |-> r.line.ret]

\* IsRunning: status["running"].(bool), false on any error
IsRunning(r) == ~CheckStatus(r).err /\ CheckStatus(r).status = "running:true"

\* GetStatus taking a PID file it cannot use for no PID file
GetStatus_Lenient(p) ==
    /\ pc[p] = "GetStatus"
    /\ status' = [NoStatus EXCEPT !.pid = readPIDFile.pid]
    /\ events' = <<>>
    /\ arrived' = <<>>
    /\ Call(p, "Connect", "checkQMPStatus")
    /\ UNCHANGED <<conn, mu, toClient, toServer, peerClosed, sent, nLines>>
    /\ UNCHANGED <<cmd, res, ctx, ops, lastOp, myTag>>
    /\ UNCHANGED <<stopArgs, stopResult, ctxLeft, kills, probes, dials, stopLog>>
    /\ UNCHANGED <<sdVars, osVars>>

\* GetStatus: readPIDFile; checkQMPStatus: NewQMPClient, Connect
GetStatus(p) ==
    /\ pc[p] = "GetStatus"
    /\ LET r == readPIDFile IN
       IF r.err # "nil"
       THEN /\ status' = [NoStatus EXCEPT !.err = r.err, !.done = TRUE]
            /\ Return(p)
            /\ UNCHANGED <<events, arrived>>
       ELSE /\ status' = [NoStatus EXCEPT !.pid = r.pid]
            /\ events' = <<>>
            /\ arrived' = <<>>
            /\ Call(p, "Connect", "checkQMPStatus")
    /\ UNCHANGED <<conn, mu, toClient, toServer, peerClosed, sent, nLines>>
    /\ UNCHANGED <<cmd, res, ctx, ops, lastOp, myTag>>
    /\ UNCHANGED <<stopArgs, stopResult, ctxLeft, kills, probes, dials, stopLog>>
    /\ UNCHANGED <<sdVars, osVars>>

\* the fallback of GetStatus with the process check left out
checkQMPStatus_NoProbe(p) ==
    /\ pc[p] = "checkQMPStatus"
    /\ IF res[p].err # "nil"
       THEN /\ status' = [status EXCEPT !.connErr = res[p].err, !.running = (status.pid # 0),
                                        !.done = TRUE]
            /\ Return(p)
            /\ UNCHANGED cmd
       ELSE /\ status' = [status EXCEPT !.connErr = "nil"]
            /\ cmd' = [cmd EXCEPT ![p] = "query-status"]
            /\ Call(p, "SendCommand", "cqs_IsRunning")
    /\ UNCHANGED <<res, ctx, ops, lastOp, myTag>>
    /\ UNCHANGED <<stopArgs, stopResult, ctxLeft, kills, probes, dials, stopLog>>
    /\ UNCHANGED <<clientVars, sdVars, osVars>>

\* checkQMPStatus after Connect returned. On an error GetStatus sets IsAlive and
\* QMPConnected false and IsRunning = pid != nil && isProcessRunning(pid), and
\* returns; else checkQMPStatus goes on to qmpClient.IsRunning(ctx).
checkQMPStatus(p) ==
    /\ pc[p] = "checkQMPStatus"
    /\ IF res[p].err # "nil"
       THEN /\ status' = [status EXCEPT !.connErr = res[p].err, !.alive = FALSE,
                                        !.qmpConnected = FALSE,
                                        !.running = isProcessRunning(status.pid),
                                        !.done = TRUE]
            /\ probes' = IF status.pid # 0 THEN Append(probes, status.pid) ELSE probes
            /\ Return(p)
            /\ UNCHANGED cmd
       ELSE /\ status' = [status EXCEPT !.connErr = "nil"]
            /\ cmd' = [cmd EXCEPT ![p] = "query-status"]
            /\ Call(p, "SendCommand", "cqs_IsRunning")
            /\ UNCHANGED probes
    /\ UNCHANGED <<res, ctx, ops, lastOp, myTag>>
    /\ UNCHANGED <<stopArgs, stopResult, ctxLeft, kills, dials, stopLog>>
    /\ UNCHANGED <<clientVars, sdVars, osVars>>

\* checkQMPStatus: alive = qmpClient.IsRunning(ctx); then qmpClient.CheckStatus
checkQMPStatus_IsRunning(p) ==
    /\ pc[p] = "cqs_IsRunning"
    /\ status' = [status EXCEPT !.alive = IsRunning(res[p]), !.reply = res[p]]
    /\ cmd' = [cmd EXCEPT ![p] = "query-status"]
    /\ Call(p, "SendCommand", "cqs_CheckStatus")
    /\ UNCHANGED <<res, ctx, ops, lastOp, myTag>>
    /\ UNCHANGED <<stopArgs, stopResult, ctxLeft, kills, probes, dials, stopLog>>
    /\ UNCHANGED <<clientVars, sdVars, osVars>>

\* checkQMPStatus: the details are taken if CheckStatus gave no error; return,
\* which runs the deferred qmpClient.Close()
checkQMPStatus_CheckStatus(p) ==
    /\ pc[p] = "cqs_CheckStatus"
    /\ Call(p, "Close", "GetStatus_ret")
    /\ UNCHANGED <<cmd, res, ctx, ops, lastOp, myTag>>
    /\ UNCHANGED <<clientVars, sdVars, osVars, mgrVars>>

\* GetStatus with the PID-based rule used on the connected path too
GetStatus_ret_ByPid(p) ==
    /\ pc[p] = "GetStatus_ret"
    /\ status' = [status EXCEPT !.qmpConnected = TRUE,
                                !.running = isProcessRunning(status.pid), !.done = TRUE]
    /\ Return(p)
    /\ UNCHANGED <<cmd, res, ctx, ops, lastOp, myTag>>
    /\ UNCHANGED <<stopArgs, stopResult, ctxLeft, kills, probes, dials, stopLog>>
    /\ UNCHANGED <<clientVars, sdVars, osVars>>

\* GetStatus, checkQMPStatus having returned without error: IsAlive = alive,
\* QMPConnected = connected (true), IsRunning = alive
GetStatus_ret(p) ==
    /\ pc[p] = "GetStatus_ret"
    /\ status' = [status EXCEPT !.qmpConnected = TRUE, !.running = status.alive,
                                !.done = TRUE]
    /\ Return(p)
    /\ UNCHANGED <<cmd, res, ctx, ops, lastOp, myTag>>
    /\ UNCHANGED <<stopArgs, stopResult, ctxLeft, kills, probes, dials, stopLog>>
    /\ UNCHANGED <<clientVars, sdVars, osVars>>

GetStatusStep(p) ==
    \/ GetStatus(p)
    \/ checkQMPStatus(p)
    \/ checkQMPStatus_IsRunning(p)
    \/ checkQMPStatus_CheckStatus(p)
    \/ GetStatus_ret(p)

\* The steps of the client's operations, for process p.
ClientStep(p) ==
    \/ Connect(p)
    \/ Connect_stat(p)
    \/ Connect_dial(p)
    \/ readGreeting(p)
    \/ Connect_caps(p)
    \/ Connect_unlock(p)
    \/ SendCommand(p)
    \/ sendCommandInternal(p)
    \/ getResponse(p)
    \/ ReadString(p)
    \/ SendCommand_unlock(p)
    \/ Close(p)

RECURSIVE Cleanup(_, _)
Cleanup(i, fs) ==
    IF i > Len(RuntimeFiles) THEN [files |-> fs, err |-> "nil"]
    ELSE LET f == RuntimeFiles[i] IN
         IF f \in fs /\ f \in unremovable
         THEN [files |-> fs, err |-> "failed to remove"]
         ELSE Cleanup(i + 1, fs \ {f})

\* cleanupRuntimeFiles passing over every removal failure
cleanupRuntimeFiles_Lenient == [files |-> files \cap unremovable, err |-> "nil"]

\* cleanupRuntimeFiles: os.Remove on each file in turn; a missing file is
\* skipped, any other failure is returned at once
cleanupRuntimeFiles == Cleanup(1, files)

CleanupResult(c) ==
    [done |-> FALSE, ok |-> c.err = "nil",
     err |-> IF c.err = "nil" THEN "nil" ELSE "failed to cleanup runtime files"]

\* forceKillPID: os.FindProcess, process.Signal(os.Kill). The signal is
\* delivered if the process exists and may be signalled; the process is then
\* gone, and with the VM process its control socket's server and connections.
forceKillPID(pid) ==
    LET ok == pid \in alive /\ pid \notin foreign IN
    /\ kills' = Append(kills, [pid |-> pid, ok |-> ok])
    /\ alive' = IF ok THEN alive \ {pid} ELSE alive
    /\ listening' = IF ok /\ pid = vmPid THEN FALSE ELSE listening
    /\ IF ok /\ pid = vmPid /\ conn = "open"
       THEN peerClosed' = TRUE /\ toServer' = <<>>
       ELSE UNCHANGED <<peerClosed, toServer>>

NoKill == UNCHANGED <<kills, alive, listening, peerClosed, toServer>>

KillFailedResult == [done |-> FALSE, ok |-> FALSE, err |-> "failed to force kill PID"]

\* Stop: status, err := m.GetStatus(ctx)
Stop(p) ==
    /\ pc[p] = "Stop"
    /\ Call(p, "GetStatus", "Stop_status")
    /\ UNCHANGED <<cmd, res, ctx, ops, lastOp, myTag>>
    /\ UNCHANGED <<clientVars, sdVars, osVars, mgrVars>>

\* Stop on a VM that is not running, with the cleanup left out
Stop_status_NoCleanup(p) ==
    /\ pc[p] = "Stop_status"
    /\ IF status.err # "nil"
       THEN /\ stopResult' = [done |-> TRUE, ok |-> FALSE, err |-> "failed to get VM status"]
            /\ Return(p)
            /\ UNCHANGED <<files, events, arrived>>
       ELSE IF ~status.running
       THEN /\ stopResult' = [done |-> TRUE, ok |-> TRUE, err |-> "nil"]
            /\ Return(p)
            /\ UNCHANGED <<files, events, arrived>>
       ELSE /\ events' = <<>>
            /\ arrived' = <<>>
            /\ Call(p, "Connect", "Stop_connected")
            /\ UNCHANGED <<stopResult, files>>
    /\ UNCHANGED <<conn, mu, toClient, toServer, peerClosed, sent, nLines>>
    /\ UNCHANGED <<cmd, res, ctx, ops, lastOp, myTag>>
    /\ UNCHANGED <<pidContent, unreadable, unremovable, listening, alive, foreign, vmPid>>
    /\ UNCHANGED <<status, stopArgs, ctxLeft, kills, probes, dials, stopLog>>
    /\ UNCHANGED sdVars

\* Stop after GetStatus returned: its error is returned; if !status.IsRunning
\* the files are cleaned up and Stop returns; else NewQMPClient and Connect
Stop_status(p) ==
    /\ pc[p] = "Stop_status"
    /\ IF status.err # "nil"
       THEN /\ stopResult' = [done |-> TRUE, ok |-> FALSE, err |-> "failed to get VM status"]
            /\ Return(p)
            /\ UNCHANGED <<files, events, arrived>>
       ELSE IF ~status.running
       THEN /\ files' = cleanupRuntimeFiles.files
            /\ stopResult' = [CleanupResult(cleanupRuntimeFiles) EXCEPT !.done = TRUE]
            /\ Return(p)
            /\ UNCHANGED <<events, arrived>>
       ELSE /\ events' = <<>>
            /\ arrived' = <<>>
            /\ Call(p, "Connect", "Stop_connected")
            /\ UNCHANGED <<stopResult, files>>
    /\ UNCHANGED <<conn, mu, toClient, toServer, peerClosed, sent, nLines>>
    /\ UNCHANGED <<cmd, res, ctx, ops, lastOp, myTag>>
    /\ UNCHANGED <<pidContent, unreadable, unremovable, listening, alive, foreign, vmPid>>
    /\ UNCHANGED <<status, stopArgs, ctxLeft, kills, probes, dials, stopLog>>
    /\ UNCHANGED sdVars

\* Stop going on to the cleanup when the kill after a failed Connect fails
Stop_connected_IgnoreKillError(p) ==
    /\ pc[p] = "Stop_connected"
    /\ IF res[p].err # "nil"
       THEN /\ IF status.pid # 0 THEN forceKillPID(status.pid) ELSE NoKill
            /\ Goto(p, "Stop_cleanup")
            /\ UNCHANGED <<stopResult, stack>>
            /\ UNCHANGED sdVars
       ELSE /\ sdArgs' = [interval |-> 1, timeout |-> stopArgs.timeout, force |-> stopArgs.force]
            /\ sdResult' = NoResult
            /\ Call(p, "Shutdown", "Stop_shutdown")
            /\ NoKill
            /\ UNCHANGED <<stopResult, phase, left, waitLeft, sdRet>>
    /\ UNCHANGED <<conn, mu, events, toClient, sent, nLines, arrived>>
    /\ UNCHANGED <<cmd, res, ctx, ops, lastOp, myTag>>
    /\ UNCHANGED <<files, pidContent, unreadable, unremovable, foreign, vmPid>>
    /\ UNCHANGED <<status, stopArgs, ctxLeft, probes, dials, stopLog>>

\* Stop after Connect returned: on an error forceKillPID if a PID is known
\* (its error is returned); else defer Close and call Shutdown(ctx,
\* 1*time.Second, timeout, forceAfterTimeout)
Stop_connected(p) ==
    /\ pc[p] = "Stop_connected"
    /\ IF res[p].err # "nil"
       THEN /\ IF status.pid # 0
               THEN /\ forceKillPID(status.pid)
                    /\ IF kills'[Len(kills')].ok
                       THEN Goto(p, "Stop_cleanup") /\ UNCHANGED <<stopResult, stack>>
                       ELSE /\ stopResult' = [KillFailedResult EXCEPT !.done = TRUE]
                            /\ Return(p)
               ELSE /\ NoKill
                    /\ Goto(p, "Stop_cleanup")
                    /\ UNCHANGED <<stopResult, stack>>
            /\ UNCHANGED sdVars
       ELSE /\ sdArgs' = [interval |-> 1, timeout |-> stopArgs.timeout, force |-> stopArgs.force]
            /\ sdResult' = NoResult
            /\ Call(p, "Shutdown", "Stop_shutdown")
            /\ NoKill
            /\ UNCHANGED <<stopResult, phase, left, waitLeft, sdRet>>
    /\ UNCHANGED <<conn, mu, events, toClient, sent, nLines, arrived>>
    /\ UNCHANGED <<cmd, res, ctx, ops, lastOp, myTag>>
    /\ UNCHANGED <<files, pidContent, unreadable, unremovable, foreign, vmPid>>
    /\ UNCHANGED <<status, stopArgs, ctxLeft, probes, dials, stopLog>>

\* Stop's fallback with the kill on an error of Shutdown left out
Stop_shutdown_NoKillOnError(p) ==
    /\ pc[p] = "Stop_shutdown"
    /\ IF sdResult.err = "nil" /\ ~sdResult.ok /\ stopArgs.force /\ status.pid # 0
       THEN /\ forceKillPID(status.pid)
            /\ IF kills'[Len(kills')].ok
               THEN Goto(p, "Stop_cleanup") /\ UNCHANGED <<stopResult, stack>>
               ELSE /\ stopResult' = KillFailedResult
                    /\ Call(p, "Close", "Stop_ret")
       ELSE /\ NoKill
            /\ Goto(p, "Stop_cleanup")
            /\ UNCHANGED <<stopResult, stack>>
    /\ UNCHANGED <<conn, mu, events, toClient, sent, nLines, arrived>>
    /\ UNCHANGED <<cmd, res, ctx, ops, lastOp, myTag>>
    /\ UNCHANGED <<files, pidContent, unreadable, unremovable, foreign, vmPid>>
    /\ UNCHANGED <<status, stopArgs, ctxLeft, probes, dials, stopLog>>
    /\ phase' = "none" /\ left' = 0 /\ waitLeft' = 0
    /\ UNCHANGED <<sdArgs, sdRet, sdResult>>

\* Stop going on to the cleanup when the kill after Shutdown fails
Stop_shutdown_IgnoreKillError(p) ==
    /\ pc[p] = "Stop_shutdown"
    /\ IF (sdResult.err # "nil" \/ (~sdResult.ok /\ stopArgs.force)) /\ status.pid # 0
       THEN forceKillPID(status.pid)
       ELSE NoKill
    /\ Goto(p, "Stop_cleanup")
    /\ UNCHANGED <<stopResult, stack>>
    /\ UNCHANGED <<conn, mu, events, toClient, sent, nLines, arrived>>
    /\ UNCHANGED <<cmd, res, ctx, ops, lastOp, myTag>>
    /\ UNCHANGED <<files, pidContent, unreadable, unremovable, foreign, vmPid>>
    /\ UNCHANGED <<status, stopArgs, ctxLeft, probes, dials, stopLog>>
    /\ phase' = "none" /\ left' = 0 /\ waitLeft' = 0
    /\ UNCHANGED <<sdArgs, sdRet, sdResult>>

\* Stop after Shutdown returned: if err != nil, or if !success and
\* forceAfterTimeout, forceKillPID if a PID is known; its error is returned
\* (the deferred Close runs). The timers of shutdown are gone with its return.
Stop_shutdown(p) ==
    /\ pc[p] = "Stop_shutdown"
    /\ IF (sdResult.err # "nil" \/ (~sdResult.ok /\ stopArgs.force)) /\ status.pid # 0
       THEN /\ forceKillPID(status.pid)
            /\ IF kills'[Len(kills')].ok
               THEN Goto(p, "Stop_cleanup") /\ UNCHANGED <<stopResult, stack>>
               ELSE /\ stopResult' = KillFailedResult
                    /\ Call(p, "Close", "Stop_ret")
       ELSE /\ NoKill
            /\ Goto(p, "Stop_cleanup")
            /\ UNCHANGED <<stopResult, stack>>
    /\ UNCHANGED <<conn, mu, events, toClient, sent, nLines, arrived>>
    /\ UNCHANGED <<cmd, res, ctx, ops, lastOp, myTag>>
    /\ UNCHANGED <<files, pidContent, unreadable, unremovable, foreign, vmPid>>
    /\ UNCHANGED <<status, stopArgs, ctxLeft, probes, dials, stopLog>>
    /\ phase' = "none" /\ left' = 0 /\ waitLeft' = 0
    /\ UNCHANGED <<sdArgs, sdRet, sdResult>>

\* Stop: cleanupRuntimeFiles, its error or true, nil; on the return the
\* deferred Close runs if Connect had succeeded (the connection is then set)
Stop_cleanup(p) ==
    /\ pc[p] = "Stop_cleanup"
    /\ files' = cleanupRuntimeFiles.files
    /\ stopResult' = CleanupResult(cleanupRuntimeFiles)
    /\ IF conn # "nil"
       THEN Call(p, "Close", "Stop_ret")
       ELSE Goto(p, "Stop_ret") /\ UNCHANGED stack
    /\ UNCHANGED clientVars
    /\ UNCHANGED <<cmd, res, ctx, ops, lastOp, myTag>>
    /\ UNCHANGED <<pidContent, unreadable, unremovable, listening, alive, foreign, vmPid>>
    /\ UNCHANGED <<status, stopArgs, ctxLeft, kills, probes, dials, stopLog>>
    /\ UNCHANGED sdVars

\* Stop returns to its caller.
Stop_ret(p) ==
    /\ pc[p] = "Stop_ret"
    /\ stopResult' = [stopResult EXCEPT !.done = TRUE]
    /\ Return(p)
    /\ UNCHANGED <<cmd, res, ctx, ops, lastOp, myTag>>
    /\ UNCHANGED <<status, stopArgs, ctxLeft, kills, probes, dials, stopLog>>
    /\ UNCHANGED <<clientVars, sdVars, osVars>>

StopStep(p) ==
    \/ Stop(p)
    \/ Stop_status(p)
    \/ Stop_connected(p)
    \/ Stop_shutdown(p)
    \/ Stop_cleanup(p)
    \/ Stop_ret(p)

\* The VM process exits: its PID is gone, nothing listens on the control
\* socket, and its end of an open connection is closed. Its files stay.
VmExit ==
    /\ vmPid \in alive
    /\ alive' = alive \ {vmPid}
    /\ listening' = FALSE
    /\ IF conn = "open"
       THEN peerClosed' = TRUE /\ toServer' = <<>>
       ELSE UNCHANGED <<peerClosed, toServer>>
    /\ UNCHANGED <<conn, mu, events, toClient, sent, nLines, arrived>>
    /\ UNCHANGED <<files, pidContent, unreadable, unremovable, foreign, vmPid>>
    /\ UNCHANGED <<procVars, sdVars, mgrVars>>

\* ------------------------------------------------------------------ callers
\* An idle caller makes its next call op(ctx, c), with a context in state x.
CallOp(p, op, cs, xs) ==
    /\ pc[p] = "idle"
    /\ ops[p] < MaxOps
    /\ \E c \in cs, x \in xs :
          /\ cmd' = [cmd EXCEPT ![p] = c]
          /\ ctx' = [ctx EXCEPT ![p] = x]
    /\ pc' = [pc EXCEPT ![p] = op]
    /\ stack' = [stack EXCEPT ![p] = <<"idle">>]
    /\ res' = [res EXCEPT ![p] = NoRes]
    /\ ops' = [ops EXCEPT ![p] = @ + 1]
    /\ lastOp' = [lastOp EXCEPT ![p] = op]
    /\ myTag' = [myTag EXCEPT ![p] = NoTag]
    /\ UNCHANGED <<clientVars, sdVars, osVars, mgrVars>>

\* The call of process p has returned (its deferred unlock may still be due).
Returned(p, op) == lastOp[p] = op /\ pc[p] \in {"idle", op \o "_unlock"}

\* ------------------------------------------------------------------ initial states
Base ==
    [conn |-> "nil", mu |-> None, events |-> <<>>, toClient |-> <<>>, toServer |-> <<>>,
     peerClosed |-> FALSE, files |-> {}, listening |-> FALSE]

InitClient(b) ==
    /\ conn = b.conn /\ mu = None /\ events = <<>>
    /\ toClient = <<>> /\ toServer = <<>> /\ peerClosed = FALSE
    /\ sent = <<>> /\ nLines = 0 /\ arrived = <<>>
    /\ files = b.files /\ listening = b.listening

InitProcs(active) ==
    /\ pc = [p \in Procs |-> IF p \in active THEN "idle" ELSE "off"]
    /\ stack = [p \in Procs |-> <<>>]
    /\ cmd = [p \in Procs |-> "query-status"]
    /\ res = [p \in Procs |-> NoRes]
    /\ ctx = [p \in Procs |-> "live"]
    /\ ops = [p \in Procs |-> 0]
    /\ lastOp = [p \in Procs |-> None]
    /\ myTag = [p \in Procs |-> NoTag]


InitSd ==
    /\ sdArgs = [interval |-> 1, timeout |-> 0, force |-> FALSE]
    /\ phase = "none" /\ left = 0 /\ waitLeft = 0
    /\ sdRet = NoSdRet /\ sdResult = NoResult

InitOs ==
    /\ pidContent = <<>> /\ unreadable = FALSE /\ unremovable = {}
    /\ alive = {} /\ foreign = {} /\ vmPid = 0

InitMgr ==
    /\ status = NoStatus
    /\ stopArgs = [timeout |-> 0, force |-> FALSE, deadline |-> FALSE, files0 |-> {}]
    /\ stopResult = NoResult
    /\ ctxLeft = -1
    /\ kills = <<>> /\ probes = <<>> /\ dials = 0 /\ stopLog = <<>>

\* ------------------------------------------------------------------ SpecSerial
\* Concurrent SendCommand callers on one connected client; the server answers
\* every command line with exactly one response, in the order received.
InitSerial ==
    /\ InitClient([Base EXCEPT !.conn = "open", !.files = {"qmp"}, !.listening = TRUE])
    /\ InitProcs(Callers)
    /\ InitSd /\ InitOs /\ InitMgr

CallSendLive(p) == CallOp(p, "SendCommand", {"system_powerdown"}, {"live"})

NextSerial ==
    \/ \E p \in Callers :
          \/ CallSendLive(p)
          \/ SendCommand(p)
          \/ sendCommandInternal(p)
          \/ getResponse(p)
          \/ ReadString(p)
          \/ SendCommand_unlock(p)
    \/ ServerRespond

\* Every goroutine that can run does run, and the server answers.
SpecSerial == InitSerial /\ [][NextSerial]_vars /\ WF_vars(NextSerial)

\* C1: no two callers are inside the write-then-read section at once; a caller
\* whose SendCommand has returned holds a response, the one the server produced
\* for the command that caller wrote; and every caller's call returns.
C1_Exclusive ==
    \A p, q \in Callers : p # q => ~(InSection(p) /\ InSection(q))
C1_Own ==
    \A p \in Callers :
        Returned(p, "SendCommand") =>
            /\ res[p].err = "nil"
            /\ res[p].line.ret # Absent \/ res[p].line.er
            /\ res[p].line.tag = myTag[p]
            /\ myTag[p].by = p
C1_Serialized ==
    /\ [](C1_Exclusive /\ C1_Own)
    /\ \A p \in Callers : (pc[p] = "SendCommand") ~> Returned(p, "SendCommand")
\* both callers have made all their calls, each answered
C1_Witness ==
    /\ \A p \in Callers : ops[p] = MaxOps /\ pc[p] = "idle" /\ res[p].line.tag.by = p
    /\ Len(sent) = NCallers * MaxOps

\* ------------------------------------------------------------------ SpecEvents
\* Callers send commands and drain the Event Buffer on one connected client; the
\* server answers each command and sends event lines at any time.
InitEvents ==
    /\ InitClient([Base EXCEPT !.conn = "open", !.files = {"qmp"}, !.listening = TRUE])
    /\ InitProcs(Callers)
    /\ InitSd /\ InitOs /\ InitMgr

CallGetEvents(p) == CallOp(p, "GetEvents", {cmd[p]}, {ctx[p]})

NextEvents ==
    \/ \E p \in Callers :
          \/ CallSendLive(p)
          \/ CallGetEvents(p)
          \/ SendCommand(p)
          \/ sendCommandInternal(p)
          \/ getResponse(p)
          \/ ReadString(p)
          \/ SendCommand_unlock(p)
          \/ GetEvents(p)
    \/ ServerRespond
    \/ ServerEvent
    \/ ServerEventObj

SpecEvents == InitEvents /\ [][NextEvents]_vars

\* C2: an event line never fails a SendCommand, and every event line read is in
\* the Event Buffer, in arrival order, until GetEvents drains it.
C2_EventsBuffered ==
    /\ events = arrived
    /\ \A p \in Callers :
          Returned(p, "SendCommand") /\ res[p].line.ev # Absent => res[p].err = "nil"

\* ------------------------------------------------------------------ SpecShutdown
\* One Shutdown call on a connected client. The server may answer, stay silent
\* or close; the caller's context may be cancelled; time passes.
Intervals == 1..MaxInterval
Timeouts  == 0..MaxTimeout

InitShutdown ==
    /\ InitClient([Base EXCEPT !.conn = "open", !.files = {"qmp"}, !.listening = TRUE])
    /\ pc = [p \in Procs |-> IF p = "sd" THEN "Shutdown" ELSE "off"]
    /\ stack = [p \in Procs |-> IF p = "sd" THEN <<"done">> ELSE <<>>]
    /\ cmd = [p \in Procs |-> "query-status"]
    /\ res = [p \in Procs |-> NoRes]
    /\ ctx = [p \in Procs |-> "live"]
    /\ ops = [p \in Procs |-> 0]
    /\ lastOp = [p \in Procs |-> None]
    /\ myTag = [p \in Procs |-> NoTag]
    /\ sdArgs \in [interval : Intervals, timeout : Timeouts, force : BOOLEAN]
    /\ phase = "none" /\ left = 0 /\ waitLeft = 0
    /\ sdRet = NoSdRet /\ sdResult = NoResult
    /\ InitOs /\ InitMgr

SdStep ==
    \/ ShutdownStep("sd")
    \/ SendCommand("sd")
    \/ sendCommandInternal("sd")
    \/ getResponse("sd")
    \/ ReadString("sd")
    \/ SendCommand_unlock("sd")

NextShutdown ==
    \/ SdStep
    \/ Tick
    \/ ServerRespond
    \/ ServerClose
    \/ Cancel("sd")

\* The goroutine in Shutdown runs whenever it can, and time passes. Nothing
\* obliges the server to answer or the context to be cancelled.
SpecShutdown ==
    InitShutdown /\ [][NextShutdown]_vars /\ WF_vars(SdStep) /\ WF_vars(Tick)

\* ctx.Err()
CancelErrors == {"context canceled", "context deadline exceeded"}

\* The errors of SendCommand that say the peer closed the connection.
PeerClosedErrors ==
    {"connection closed by server",
     "failed to flush command: broken pipe",
     "failed to read response: connection reset by peer"}

ClosureSeen == res["sd"].err \in PeerClosedErrors

\* C3: once a send of the power-down or quit command has failed because the
\* peer closed the connection, Shutdown is on its way out with (true, nil): it
\* enters no wait, starts no further loop iteration and sends no further
\* command, whatever is left of the poll interval or the timeout.
C3_ClosedIsSuccess ==
    ClosureSeen =>
        /\ pc["sd"] \in {"SendCommand_unlock", "shutdown_check", "Shutdown_after", "done"}
        /\ pc["sd"] = "Shutdown_after" => sdRet = [ok |-> TRUE, err |-> "nil"]
        /\ pc["sd"] = "done" => sdResult = [done |-> TRUE, ok |-> TRUE, err |-> "nil"]

\* Shutdown has returned (true, nil) on a broken pipe, with time left before
\* the deadline of the phase.
C3_Witness ==
    /\ sdResult.done /\ sdResult.ok /\ sdResult.err = "nil"
    /\ res["sd"].err = "failed to flush command: broken pipe"
    /\ left > 0

\* C4: with forceOnTimeout false, a server that never closes and a context
\* that is never cancelled, Shutdown returns; it returns (false, nil), not
\* before gracefulTimeout has elapsed, and the quit command was never sent.
C4_Precondition == ~sdArgs.force /\ ~peerClosed /\ ctx["sd"] = "live"

C4_Result ==
    sdResult.done /\ C4_Precondition =>
        /\ ~sdResult.ok /\ sdResult.err = "nil"
        /\ left = 0
        /\ \A i \in 1..Len(sent) : sent[i] = "system_powerdown"

C4_GracefulTimeout == []C4_Result /\ <>(~C4_Precondition \/ sdResult.done)

\* C5: the quit command is sent only in the force phase; the force phase is
\* entered only from a graceful phase that ran to its deadline with no closure
\* seen and with forceOnTimeout set, and gets a deadline of 5 seconds; no loop
\* iteration starts past the deadline; no power-down follows a quit; and a
\* force phase that sees no closure and no cancellation ends in (false, nil).
C5_QuitOnlyForced ==
    /\ phase # "force" => \A i \in 1..Len(sent) : sent[i] = "system_powerdown"
    /\ \A i, j \in 1..Len(sent) : i < j /\ sent[i] = "quit" => sent[j] = "quit"
    /\ phase = "force" => sdArgs.force /\ left <= ForceTimeout

C5_ForceResult ==
    sdResult.done /\ phase = "force" /\ ~ClosureSeen /\ ctx["sd"] = "live" =>
        ~sdResult.ok /\ sdResult.err = "nil" /\ left = 0

C5_EnterForce ==
    phase = "graceful" /\ phase' = "force" =>
        /\ sdArgs.force /\ left = 0 /\ ~ClosureSeen
        /\ sdRet = [ok |-> FALSE, err |-> "nil"]
        /\ left' = 5

C5_Iteration ==
    pc["sd"] = "shutdown_loop" /\ pc'["sd"] = "shutdown_ctx" => left > 0

C28_CancelReturns == (ctx["sd"] # "live" /\ ~sdResult.done) ~> sdResult.done

\* C28, with the result it names: Shutdown returns (false, cancellation
\* error), or (true, nil) if a send had seen the connection closing.
C28_CancelResult ==
    (ctx["sd"] # "live" /\ ~sdResult.done) ~>
        /\ sdResult.done
        /\ \/ ~sdResult.ok /\ sdResult.err \in CancelErrors
           \/ sdResult.ok /\ ClosureSeen

\* What holds of C28 whenever Shutdown does return: an error it returns is the
\* context's, with succeeded = false; success is returned only after a send
\* saw the connection closing; and a Shutdown ended by a cancellation in its
\* graceful phase has sent no quit.
C28_WhenItReturns ==
    sdResult.done =>
        /\ sdResult.err # "nil" =>
              ~sdResult.ok /\ sdResult.err = ctx["sd"] /\ ctx["sd"] # "live"
        /\ sdResult.ok => ClosureSeen /\ sdResult.err = "nil"
        /\ sdResult.err # "nil" /\ phase = "graceful" =>
              \A i \in 1..Len(sent) : sent[i] # "quit"

\* ------------------------------------------------------------------ SpecStatus
\* One GetStatus call. The PID file is absent, unreadable, empty, well-formed
\* or malformed; the process it names exists or not; the VM answers on its control socket,
\* or is silent, or is gone, and may exit at any moment.
LimitDigits == <<"8", "3", "8", "8", "6", "0", "8">>
OverLimitDigits == <<"8", "3", "8", "8", "6", "0", "9">>
HugeDigits == MaxIntDigits \o <<"0">>

PidFileContents ==
    {<<>>, <<"7">>, <<"7", "\n">>, <<" ", "9">>, <<"9">>, <<"x">>, <<" ">>, <<"0">>,
     <<"\n">>, <<"-", "1">>, <<"+", "7">>, <<"7", "x">>,
     LimitDigits, OverLimitDigits, HugeDigits}

OtherFiles == {"serial", "monitor", "ssh"}

InitOsStatus ==
    /\ vmPid = 7
    /\ alive \in SUBSET {7, 9}
    /\ foreign \in SUBSET {9}
    /\ files \in {S \cup OtherFiles : S \in SUBSET {"pid", "qmp"}}
    /\ pidContent \in PidFileContents
    /\ "pid" \notin files => pidContent = <<>>
    /\ unreadable \in BOOLEAN
    /\ unreadable => "pid" \in files /\ pidContent = <<>>
    /\ listening \in BOOLEAN
    /\ listening => vmPid \in alive /\ "qmp" \in files
    /\ unremovable = {}

InitMgrProc(entry) ==
    /\ conn = "nil" /\ mu = None /\ events = <<>>
    /\ toClient = <<>> /\ toServer = <<>> /\ peerClosed = FALSE
    /\ sent = <<>> /\ nLines = 0 /\ arrived = <<>>
    /\ pc = [p \in Procs |-> IF p = "mgr" THEN entry ELSE "off"]
    /\ stack = [p \in Procs |-> IF p = "mgr" THEN <<"done">> ELSE <<>>]
    /\ cmd = [p \in Procs |-> "query-status"]
    /\ res = [p \in Procs |-> NoRes]
    /\ ops = [p \in Procs |-> 0]
    /\ lastOp = [p \in Procs |-> None]
    /\ myTag = [p \in Procs |-> NoTag]

InitStatus ==
    /\ InitMgrProc("GetStatus")
    /\ ctx = [p \in Procs |-> "live"]
    /\ InitOsStatus
    /\ InitSd /\ InitMgr

NextStatus ==
    \/ GetStatusStep("mgr")
    \/ ClientStep("mgr")
    \/ ServerRespond
    \/ VmExit
    \/ Cancel("mgr")

SpecStatus == InitStatus /\ [][NextStatus]_vars

ConnectFailed == status.connErr \notin {None, "nil"}

\* The status query IsRunning made was answered with a payload whose "running"
\* member is the boolean true.
AnsweredRunning ==
    /\ status.reply.err = "nil"
    /\ status.reply.line.js /\ ~status.reply.line.er
    /\ status.reply.line.ret = "running:true"

\* C9: a Status returned after a successful Connect has qmpConnected = true and
\* alive = running = (the status query was answered with "running": true),
\* whatever the PID file holds and whether or not the process exists.
C9_ProtocolAuthoritative ==
    status.done /\ status.err = "nil" /\ status.connErr = "nil" =>
        /\ status.qmpConnected
        /\ status.alive = status.running
        /\ status.running <=> AnsweredRunning

\* GetStatus has reported a running VM over the protocol with no PID known.
C9_Witness ==
    /\ status.done /\ status.connErr = "nil"
    /\ status.qmpConnected /\ status.alive /\ status.running
    /\ status.pid = 0

\* C10: when GetStatus returns after a failed Connect, the Status has
\* qmpConnected = false, alive = false, and running is true exactly when a PID
\* was read from the PID file and the signal-0 check of that PID succeeds at
\* that moment; a nil PID is never running.
C10_Returns ==
    ~status.done /\ status'.done /\ status'.err = "nil" /\ status'.connErr \notin {None, "nil"}

C10_Fallback ==
    C10_Returns =>
        /\ ~status'.qmpConnected /\ ~status'.alive
        /\ status'.pid = readPIDFile.pid
        /\ status'.running <=> (status'.pid # 0 /\ status'.pid \in alive
                                    /\ status'.pid \notin foreign)

C10_PidFallback ==
    [][C10_Fallback]_vars /\ [](status.done /\ ConnectFailed /\ status.pid = 0 => ~status.running)

\* GetStatus could not connect and reports a stale PID as not running.
C10_Witness ==
    /\ status.done /\ ConnectFailed
    /\ status.pid # 0 /\ status.pid \notin alive
    /\ ~status.running /\ ~status.alive /\ ~status.qmpConnected

\* ---- what a PID-file content is, said without the parser
\* t is a decimal numeral: an optional sign, then one or more digits
IsNumeral(t) ==
    LET body == IF t # <<>> /\ Head(t) \in {"+", "-"} THEN Tail(t) ELSE t
    IN  body # <<>> /\ \A i \in 1..Len(body) : IsDigit(body[i])

\* the digits of the numeral t, leading zeros dropped (none for zero)
NumeralDigits(t) == TrimZeros(IF Head(t) \in {"+", "-"} THEN Tail(t) ELSE t)

\* the numeral t denotes an integer in (0, 2^23]
NumeralInRange(t) ==
    /\ IsNumeral(t) /\ Head(t) # "-"
    /\ NumeralDigits(t) # <<>>
    /\ ~NumeralGreater(NumeralDigits(t), LimitDigits)

\* the PID file exists, can be read, is not empty, and its content is not a
\* numeral in (0, 2^23] once surrounding whitespace is dropped
Malformed ==
    /\ "pid" \in files /\ ~unreadable
    /\ pidContent # <<>>
    /\ ~NumeralInRange(TrimSpace(pidContent))

Unreadable == "pid" \in files /\ unreadable

\* C11 as stated: GetStatus returns an error only when the PID file is
\* malformed (non-numeric or out of range), and a Status and no error in every
\* other situation. An unreadable PID file refutes it.
C11_OnlyMalformed == status.done => (status.err # "nil" <=> Malformed)

\* C11: GetStatus returns an error exactly when the PID file exists and either
\* cannot be read or is malformed (not empty, and not a numeral in (0, 2^23]
\* once trimmed); in every other situation, whatever the control socket and
\* the protocol do, it returns a Status and no error.
C11_ErrorOnlyFromPidFile ==
    status.done =>
        /\ status.err # "nil" <=> (Unreadable \/ Malformed)
        /\ status.err = "nil" => status.connErr # None

\* GetStatus returned a Status and no error although it could not connect,
\* and the PID file names no process of this VM.
C11_Witness ==
    /\ status.done /\ status.err = "nil"
    /\ ConnectFailed /\ status.pid = 9

\* The result the case list of C12 gives for the PID file: absent or empty
\* (nothing but whitespace counted as empty, since the case of invalid
\* content asks for non-empty trimmed content) gives no PID and no error;
\* a non-numeral gives InvalidPID; a numeral outside (0, 2^23] gives
\* PIDOutOfRange; a numeral in (0, 2^23] gives its value.
PidFileCase ==
    LET t == TrimSpace(pidContent) IN
    IF "pid" \notin files \/ t = <<>> THEN [pid |-> 0, err |-> "nil"]
    ELSE IF ~IsNumeral(t) THEN [pid |-> 0, err |-> "invalid PID in file"]
    ELSE IF ~NumeralInRange(t) THEN [pid |-> 0, err |-> "PID is out of reasonable range"]
    ELSE [pid |-> DigitsVal(NumeralDigits(t)), err |-> "nil"]

\* C12: for every PID-file content that can be read, reading the PID file
\* yields the result of the case list: no PID and no error for an absent or
\* empty file, InvalidPID for a non-numeral, PIDOutOfRange for a numeral
\* <= 0 or > 2^23, and the integer for a numeral in (0, 2^23].
C12_PidFileCases ==
    status.done /\ ~unreadable =>
        /\ status.err = PidFileCase.err
        /\ status.err = "nil" => status.pid = PidFileCase.pid

\* The part of the case list that holds: every content whose trimmed form is
\* not empty and is either no numeral or a numeral of a value an int holds.
C12_OtherContents ==
    status.done /\ ~unreadable /\ TrimSpace(pidContent) # <<>>
                /\ pidContent # HugeDigits =>
        /\ status.err = PidFileCase.err
        /\ status.err = "nil" => status.pid = PidFileCase.pid

\* ------------------------------------------------------------------ SpecStop
\* Stop called on one VM, and called again with the same arguments. The VM
\* process exists or not, listens on its control socket or not, answers or
\* not, and may exit at any moment; time passes.
AllFiles == {RuntimeFiles[i] : i \in 1..Len(RuntimeFiles)}

InitOsStop ==
    /\ vmPid = 7
    /\ alive \in {{}, {7}}
    /\ foreign = {}
    /\ files \in {{}, AllFiles, AllFiles \ {"pid"}, AllFiles \ {"qmp"}}
    /\ pidContent \in {<<>>, <<"7", "\n">>, <<"9">>, <<"x">>}
    /\ "pid" \notin files => pidContent = <<>>
    /\ listening \in BOOLEAN
    /\ listening => vmPid \in alive /\ "qmp" \in files
    /\ unreadable = FALSE
    /\ unremovable \in {{}, {"serial"}}
    /\ unremovable \subseteq files

InitStop ==
    /\ InitMgrProc("idle")
    /\ ctx = [p \in Procs |-> "live"]
    /\ InitOsStop
    /\ InitSd
    /\ status = NoStatus
    /\ stopArgs \in [timeout : {0, MaxTimeout}, force : BOOLEAN, deadline : BOOLEAN, files0 : {{}}]
    /\ stopResult = NoResult
    /\ ctxLeft = -1
    /\ kills = <<>> /\ probes = <<>> /\ dials = 0 /\ stopLog = <<>>

\* Stop found the VM not running: no PID or a PID of no process, and no
\* control socket it could connect to.
NotRunning ==
    /\ status.done /\ status.err = "nil" /\ ~status.running
    /\ status.connErr \in {"not found", "failed to connect", "permissions"}

\* What is kept of a Stop call that has returned.
StopRecord ==
    [ok |-> stopResult.ok, err |-> stopResult.err, files |-> files,
     notRunning |-> NotRunning]

\* The caller calls Stop(ctx, timeout, forceAfterTimeout); ctx has no deadline,
\* or the deadline the stop command gives it: timeout from now. The histories
\* sent, kills, probes and dials start anew with the call.
CallStop(p) ==
    /\ pc[p] = "idle"
    /\ ops[p] < MaxStops
    /\ ops' = [ops EXCEPT ![p] = @ + 1]
    /\ pc' = [pc EXCEPT ![p] = "Stop"]
    /\ stack' = [stack EXCEPT ![p] = <<"StopReturned">>]
    /\ res' = [res EXCEPT ![p] = NoRes]
    /\ ctxLeft' = IF stopArgs.deadline THEN stopArgs.timeout ELSE -1
    /\ ctx' = [ctx EXCEPT ![p] = IF stopArgs.deadline /\ stopArgs.timeout = 0
                                  THEN "context deadline exceeded" ELSE "live"]
    /\ stopArgs' = [stopArgs EXCEPT !.files0 = files]
    /\ sent' = <<>> /\ kills' = <<>> /\ probes' = <<>> /\ dials' = 0
    /\ stopResult' = NoResult
    /\ status' = NoStatus
    /\ sdResult' = NoResult /\ sdRet' = NoSdRet
    /\ phase' = "none" /\ left' = 0 /\ waitLeft' = 0
    /\ UNCHANGED <<sdArgs, cmd, lastOp, myTag>>
    /\ UNCHANGED stopLog
    /\ UNCHANGED <<conn, mu, events, toClient, toServer, peerClosed, nLines, arrived>>
    /\ UNCHANGED osVars

\* The caller has Stop's result.
StopReturned(p) ==
    /\ pc[p] = "StopReturned"
    /\ stopLog' = Append(stopLog, StopRecord)
    /\ Goto(p, "idle")
    /\ UNCHANGED <<stack, cmd, res, ctx, ops, lastOp, myTag>>
    /\ UNCHANGED <<status, stopArgs, stopResult, ctxLeft, kills, probes, dials>>
    /\ UNCHANGED <<clientVars, sdVars, osVars>>

MgrStep ==
    \/ CallStop("mgr")
    \/ StopReturned("mgr")
    \/ StopStep("mgr")
    \/ GetStatusStep("mgr")
    \/ ShutdownStep("mgr")
    \/ ClientStep("mgr")

NextStop ==
    \/ MgrStep
    \/ ServerRespond
    \/ VmExit
    \/ Tick

SpecStop == InitStop /\ [][NextStop]_vars

StopHasReturned == pc["mgr"] = "StopReturned"

\* The forced-termination signal was sent to the PID of the status.
Signalled == \E k \in 1..Len(kills) : kills[k].pid = status.pid

\* The call that has returned gave what the call before it gave.
SameAsBefore ==
    stopLog # <<>> /\ stopLog[Len(stopLog)].notRunning =>
        /\ stopResult.ok = stopLog[Len(stopLog)].ok
        /\ stopResult.err = stopLog[Len(stopLog)].err
        /\ files = stopLog[Len(stopLog)].files

\* C6 as stated: Stop on a VM reported not running always succeeds, leaves no
\* artifact file, sends no kill signal and no protocol command, and does the
\* same when called again.
C6_AlwaysSucceeds ==
    StopHasReturned /\ NotRunning =>
        /\ stopResult.ok /\ stopResult.err = "nil" /\ files = {}
        /\ kills = <<>> /\ sent = <<>> /\ ~sdResult.done
        /\ SameAsBefore

\* C6: Stop on a VM reported not running sends no kill signal and no protocol
\* command and runs the cleanup; it succeeds, leaving no artifact file, exactly
\* when no artifact file present fails to be removed, and returns the cleanup
\* error otherwise; called again it gives the same result.
C6_Idempotent ==
    StopHasReturned /\ NotRunning =>
        /\ kills = <<>> /\ sent = <<>> /\ ~sdResult.done
        /\ stopResult.ok <=> stopArgs.files0 \cap unremovable = {}
        /\ stopResult.ok => stopResult.err = "nil" /\ files = {}
        /\ ~stopResult.ok => stopResult.err = "failed to cleanup runtime files"
        /\ SameAsBefore

\* Stop found a stale PID file and no control socket; it had removed every
\* artifact file and succeeded, and called again it has succeeded again.
C6_Witness ==
    /\ StopHasReturned /\ NotRunning /\ stopResult.ok
    /\ Len(stopLog) = 1 /\ stopLog[1].notRunning /\ stopLog[1].ok
    /\ pidContent # <<>> /\ files = {}

C8_NoStaleArtifacts ==
    StopHasReturned /\ status.err = "nil" /\ vmPid \notin alive /\ unremovable = {}
        => files = {}

\* ------------------------------------------------------------------ claims on Stop
\* Stop reached its cleanup: it returned neither the error of GetStatus nor
\* the error of a kill.
CleanupRan ==
    stopResult.err \notin {"failed to get VM status", "failed to force kill PID"}

\* C21: whenever Stop returns success none of the five artifact files exists;
\* whenever Stop ran its cleanup it succeeds exactly if no file present at the
\* call fails to be removed (a missing file is passed over) and returns the
\* cleanup error otherwise; and Stop on a VM whose files are all gone already
\* succeeds.
C21_CleanupContract ==
    StopHasReturned =>
        /\ stopResult.ok => files = {} /\ stopResult.err = "nil"
        /\ CleanupRan =>
              /\ stopResult.ok <=> stopArgs.files0 \cap unremovable = {}
              /\ ~stopResult.ok => stopResult.err = "failed to cleanup runtime files"
        /\ stopArgs.files0 = {} => stopResult.ok

\* Stop had stopped a running VM and removed its files; called again, with
\* every file missing, it has succeeded again.
C21_Witness ==
    /\ StopHasReturned /\ stopResult.ok /\ stopArgs.files0 = {} /\ files = {}
    /\ Len(stopLog) = 1 /\ stopLog[1].ok /\ ~stopLog[1].notRunning

\* Stop found the VM running and its own Connect failed: Shutdown never ran.
StopConnectFailed ==
    /\ StopHasReturned /\ status.done /\ status.err = "nil" /\ status.running
    /\ ~sdResult.done

\* the PID the PID file holds
PidInFile == DigitsVal(NumeralDigits(TrimSpace(pidContent)))

\* C22: when Stop found the VM running and its Connect failed, then with a
\* PID known it sent the kill signal once, to the PID the PID file holds, and
\* to no other, and returned (false, KillFailed) if the signal was not
\* delivered; with no PID known it sent no signal.
C22_KillOnConnectFailure ==
    StopConnectFailed =>
        /\ \A i \in 1..Len(sent) : sent[i] \notin {"system_powerdown", "quit"}
        /\ status.pid = 0 => kills = <<>>
        /\ status.pid # 0 =>
              /\ status.pid = PidInFile
              /\ Len(kills) = 1 /\ kills[1].pid = status.pid
              /\ ~kills[1].ok =>
                    ~stopResult.ok /\ stopResult.err = "failed to force kill PID"
              /\ kills[1].ok => status.pid \notin alive /\ CleanupRan

\* The kill after a failed Connect was not delivered, and Stop returned the
\* error.
C22_Witness ==
    /\ StopConnectFailed /\ status.pid # 0
    /\ Len(kills) = 1 /\ ~kills[1].ok
    /\ ~stopResult.ok /\ stopResult.err = "failed to force kill PID"

\* the last kill signal Stop sent was not delivered
KillFailed == kills # <<>> /\ ~kills[Len(kills)].ok

\* the protocol-level shutdown did not succeed, or was not attempted
NoProtocolSuccess == ~sdResult.done \/ ~sdResult.ok \/ sdResult.err # "nil"

\* C25 as stated: whenever Stop returns an error, the protocol-level shutdown
\* did not succeed or could not be attempted, and the forced kill failed.
C25_BothExhausted ==
    StopHasReturned /\ ~stopResult.ok => NoProtocolSuccess /\ KillFailed

\* C25: Stop returns an error in three cases only: the status check failed on
\* the PID file (nothing was attempted, no file removed); the protocol-level
\* shutdown did not succeed or could not be attempted and the forced kill
\* failed; or both paths aside, removing an artifact file failed. A failed
\* kill is always returned as an error.
C25_FailureCauses ==
    StopHasReturned =>
        /\ stopResult.ok <=> stopResult.err = "nil"
        /\ stopResult.err \in {"nil", "failed to get VM status", "failed to force kill PID",
                                "failed to cleanup runtime files"}
        /\ stopResult.err = "failed to get VM status" <=> status.err # "nil"
        /\ status.err # "nil" => kills = <<>> /\ sent = <<>> /\ files = stopArgs.files0
        /\ stopResult.err = "failed to force kill PID" <=> KillFailed
        /\ KillFailed => NoProtocolSuccess /\ files = stopArgs.files0
        /\ stopResult.err = "failed to cleanup runtime files" =>
              ~KillFailed /\ stopArgs.files0 \cap unremovable # {}

\* Shutdown ran and returned an error, the kill that followed was not
\* delivered, and Stop returned the error.
C25_Witness ==
    /\ StopHasReturned /\ sdResult.done /\ sdResult.err # "nil"
    /\ KillFailed /\ stopResult.err = "failed to force kill PID"

\* C26: a connection Stop opened is closed before any artifact file is
\* removed, and no connection is open when Stop returns.
C26_RemovesAfterClose == files' # files => conn = "nil"
C26_ClosedBeforeCleanup ==
    [][C26_RemovesAfterClose]_vars /\ [](StopHasReturned => conn = "nil")

\* The status check found no running VM at OS level: the control socket gave
\* no connection, and the PID file named no PID or a PID of no process.
FoundNotRunningAtOS == status.done /\ ~status.qmpConnected /\ ~status.running

\* C29: whenever Stop returns success, the VM process is not left running
\* unsignalled: a VM process still alive when Stop reports it stopped, its
\* files removed, is one the status check could not find at OS level.
C29_NoOrphan ==
    StopHasReturned /\ stopResult.ok /\ vmPid \in alive => FoundNotRunningAtOS

\* Stop is called as the stop command calls it, with a context whose deadline
\* is the graceful timeout, counted from before the status check, and with
\* force enabled.
AsStopCmd == stopArgs.deadline /\ stopArgs.force /\ stopArgs.timeout > 0

\* Shutdown has run and returned, the VM process is alive and has kept the
\* control connection open.
ConnectionKeptOpen == sdResult.done /\ vmPid \in alive /\ ~peerClosed /\ conn = "open"

\* a kill signal is sent in this step
KillSent == kills' # kills

\* C30: in the stop command with force enabled and a VM that answers commands
\* and keeps the connection open for the whole graceful phase, the quit
\* command has been sent before any kill signal is sent to the PID.
C30_QuitBeforeKill ==
    [][AsStopCmd /\ ConnectionKeptOpen /\ KillSent =>
          \E i \in 1..Len(sent) : sent[i] = "quit"]_vars

\* What the code does instead of C30: called as the stop command calls it,
\* Stop never sends quit; the context expires no later than the graceful
\* phase ends, and the force phase returns at its first look at the context.
C30_QuitNeverSent ==
    AsStopCmd => \A i \in 1..Len(sent) : sent[i] # "quit"

\* ------------------------------------------------------------------ SpecClient
\* One user of one QMPClient calls Connect, SendCommand, Connected and Close in
\* any order, with a context that is live, already cancelled, or cancelled
\* while the call runs. The control socket is missing, stale or served; the
\* server greets (or not), answers each command with a result or an error (or
\* stays silent), and may close the connection at any moment.
User == CallerName[1]

UserOps == {"Connect", "SendCommand", "Connected", "Close"}

\* The client has never been connected, or was connected before: it may hold an
\* open connection and events of earlier responses.
InitUser ==
    /\ files \in {{}, {"qmp"}}
    /\ listening \in BOOLEAN
    /\ listening => "qmp" \in files
    /\ conn \in {"nil", "open"}
    /\ conn = "open" => listening
    /\ events \in {<<>>, <<"SHUTDOWN">>}
    /\ arrived = events
    /\ mu = None
    /\ toClient = <<>> /\ toServer = <<>> /\ peerClosed = FALSE
    /\ sent = <<>> /\ nLines = 0
    /\ InitProcs({User})
    /\ InitSd /\ InitOs /\ InitMgr

\* The user calls one operation of the client. The histories sent and dials
\* start anew with the call.
CallUser(p) ==
    /\ pc[p] = "idle"
    /\ ops[p] < MaxOps
    /\ \E op \in UserOps :
          /\ pc' = [pc EXCEPT ![p] = op]
          /\ lastOp' = [lastOp EXCEPT ![p] = op]
    /\ \E x \in {"live", "context canceled"} : ctx' = [ctx EXCEPT ![p] = x]
    /\ cmd' = [cmd EXCEPT ![p] = "query-status"]
    /\ stack' = [stack EXCEPT ![p] = <<"idle">>]
    /\ res' = [res EXCEPT ![p] = NoRes]
    /\ ops' = [ops EXCEPT ![p] = @ + 1]
    /\ myTag' = [myTag EXCEPT ![p] = NoTag]
    /\ sent' = <<>>
    /\ dials' = 0
    /\ UNCHANGED <<conn, mu, events, toClient, toServer, peerClosed, nLines, arrived>>
    /\ UNCHANGED <<status, stopArgs, stopResult, ctxLeft, kills, probes, stopLog>>
    /\ UNCHANGED <<sdVars, osVars>>

UserStep == ClientStep(User) \/ Connected(User)

NextClient ==
    \/ CallUser(User)
    \/ UserStep
    \/ ServerRespond
    \/ ServerClose
    \/ Cancel(User)

\* The user's goroutine runs whenever it can; nothing is assumed of the server.
SpecClient == InitUser /\ [][NextClient]_vars /\ WF_vars(UserStep)


\* the steps of a Connect call, from its first to its deferred unlock
InConnect(p) ==
    pc[p] \in {"Connect", "Connect_stat", "Connect_dial", "readGreeting", "Connect_caps",
               "Connect_unlock"}
    \/ (lastOp[p] = "Connect" /\ InSection(p))

\* C13: a Connect of a disconnected client whose socket path names no file
\* returns NotFound, and from the call to the return no dial is made, nothing
\* is written or read, and the client stays Disconnected.
C13_NoSocket ==
    /\ lastOp[User] = "Connect" /\ "qmp" \notin files =>
          /\ conn = "nil" /\ dials = 0 /\ sent = <<>>
          /\ toClient = <<>> /\ toServer = <<>>
    /\ Returned(User, "Connect") /\ "qmp" \notin files => res[User].err = "not found"

\* Connect has returned NotFound.
C13_Witness ==
    Returned(User, "Connect") /\ res[User].err = "not found" /\ "qmp" \notin files

\* C14: when the server answers qmp_capabilities with an error-shaped
\* response, Connect returns an error and the client is Disconnected.
C14_CapsErrorStep ==
    pc[User] = "Connect_caps" /\ res[User].err = "nil" /\ res[User].line.er
        => res'[User].err # "nil" /\ conn' = "nil"
C14_CapsErrorAborts == [][C14_CapsErrorStep]_vars

\* C15: when Connect returns, it returns nil exactly if the client is
\* Connected; after an error the client is Disconnected with its socket closed
\* (nothing in flight in either direction); and no step outside Connect's
\* dial ever makes a Disconnected client Connected.
C15_AtReturn ==
    Returned(User, "Connect") =>
        /\ res[User].err = "nil" <=> conn = "open"
        /\ res[User].err # "nil" =>
              conn = "nil" /\ toClient = <<>> /\ toServer = <<>> /\ ~peerClosed
C15_Opens ==
    conn = "nil" /\ conn' # "nil" =>
        pc[User] = "Connect_dial" /\ lastOp[User] = "Connect" /\ mu = User
C15_ConnectedOnlyAfterConnect == [](C15_AtReturn) /\ [][C15_Opens]_vars

\* Connect has dialed, failed at the greeting or the negotiation, and left the
\* client Disconnected.
C15_Witness ==
    /\ Returned(User, "Connect") /\ dials = 1
    /\ res[User].err \in {"failed to read QMP greeting", "failed to send qmp_capabilities"}
    /\ conn = "nil"

\* SendCommand has returned the error of its cancelled context.
CancelledSend == Returned(User, "SendCommand") /\ res[User].err \in CancelErrors

\* C16: a SendCommand whose context is cancelled before its response has been
\* read returns a cancellation error, and the client is then Disconnected.
C16_CancelDisconnects == CancelledSend => conn = "nil"

\* a blocking step of a call whose context has been cancelled
BlockedCancelled(p) ==
    ctx[p] # "live" /\ pc[p] \in {"readGreeting", "getResponse", "ReadString"}

\* C17: a Connect waiting for the greeting, or a SendCommand (or the
\* negotiation) waiting for a response, returns once its context is cancelled,
\* with a cancellation error, however silent the server is.
C17_CancelReturns ==
    BlockedCancelled(User) ~>
        (pc[User] = "idle" /\ res[User].err \in
            CancelErrors \cup {"failed to read QMP greeting", "failed to send qmp_capabilities"})

\* an I/O failure of the connection, as SendCommand reports it
IOErrors ==
    {"failed to flush command: broken pipe", "connection closed by server",
     "failed to read response: connection reset by peer"}

\* C20: when SendCommand fails on an I/O error of the connection, the client
\* is Disconnected, and a later SendCommand fails with NotConnected.
C20_IOErrorDisconnects ==
    Returned(User, "SendCommand") /\ res[User].err \in IOErrors => conn = "nil"

\* C18: a SendCommand on a Disconnected client fails with NotConnected, and
\* from the call to the return nothing is written and the connection state
\* and the Event Buffer stay as they were.
C18_Result ==
    lastOp[User] = "SendCommand" /\ conn = "nil" =>
        /\ sent = <<>> /\ toServer = <<>> /\ toClient = <<>>
        /\ Returned(User, "SendCommand") => res[User].err = "not connected"
C18_Untouched ==
    lastOp[User] = "SendCommand" /\ pc[User] # "idle" /\ conn = "nil" =>
        UNCHANGED <<conn, events, toClient, toServer, peerClosed, sent, dials>>
C18_NotConnected == [](C18_Result) /\ [][C18_Untouched]_vars

\* SendCommand has failed with NotConnected on a client that holds an event.
C18_Witness ==
    /\ Returned(User, "SendCommand") /\ res[User].err = "not connected"
    /\ conn = "nil" /\ events # <<>>

\* C19: after Close returns the client is Disconnected with nothing in flight,
\* whether or not closing the socket reported an error; Close on a
\* Disconnected client returns no error and changes nothing; and a Connect of
\* a Disconnected client never returns nil without a fresh handshake: one
\* dial, the greeting read, qmp_capabilities sent, the client Connected.
C19_Closed ==
    Returned(User, "Close") =>
        conn = "nil" /\ toClient = <<>> /\ toServer = <<>> /\ dials = 0 /\ sent = <<>>
C19_NoOp ==
    pc[User] = "Close" /\ conn = "nil" /\ pc'[User] # "Close" =>
        /\ res'[User].err = "nil"
        /\ UNCHANGED <<conn, events, toClient, toServer, peerClosed, sent, dials>>
C19_Fresh ==
    /\ pc[User] = "Connect_stat" /\ conn = "nil" /\ pc'[User] # "Connect_stat" =>
          pc'[User] = "Connect_dial" \/ res'[User].err # "nil"
    /\ pc[User] = "Connect_caps" /\ pc'[User] = "Connect_unlock" /\ res'[User].err = "nil" =>
          conn' = "open" /\ dials' = 1 /\ sent' = <<"qmp_capabilities">>
C19_CloseUnconditional == [](C19_Closed) /\ [][C19_NoOp /\ C19_Fresh]_vars

\* Close has reported an error of the socket and left the client Disconnected.
C19_Witness ==
    Returned(User, "Close") /\ res[User].err = "close failed" /\ conn = "nil"

\* ------------------------------------------------------------------ SpecDrain
\* On a freshly connected client one goroutine sends commands while another
\* drains the Event Buffer; the server answers each command and sends events
\* (lines whose "event" member is an object) at any time.
Drainer == CallerName[2]

InitDrain ==
    /\ InitClient([Base EXCEPT !.conn = "open", !.files = {"qmp"}, !.listening = TRUE])
    /\ InitProcs({User, Drainer})
    /\ InitSd /\ InitOs /\ InitMgr

SendStep(p) ==
    \/ SendCommand(p)
    \/ sendCommandInternal(p)
    \/ getResponse(p)
    \/ ReadString(p)
    \/ SendCommand_unlock(p)

NextDrain ==
    \/ CallOp(User, "SendCommand", {"query-status"}, {"live"})
    \/ SendStep(User)
    \/ CallGetEvents(Drainer)
    \/ GetEvents(Drainer)
    \/ ServerRespond
    \/ ServerEventObj

SpecDrain == InitDrain /\ [][NextDrain]_vars

\* C23: the Event Buffer holds exactly the events read since the last drain,
\* in arrival order; GetEvents returns the whole buffer and leaves it empty;
\* every other step leaves the buffer as it is or appends one event to it. So
\* each buffered event is returned by exactly one GetEvents, in order, and a
\* GetEvents with nothing read since the last one (or since construction)
\* returns nothing.
C23_Buffer == events = arrived
C23_Drain ==
    pc[Drainer] = "GetEvents" /\ pc'[Drainer] # "GetEvents" =>
        res'[Drainer].evs = events /\ events' = <<>>
C23_Keep ==
    ~(pc[Drainer] = "GetEvents" /\ pc'[Drainer] # "GetEvents") =>
        \/ events' = events
        \/ \E e \in EventNames : events' = Append(events, e)
C23_Empty ==
    Returned(Drainer, "GetEvents") /\ nLines = 0 => res[Drainer].evs = <<>>
C23_DrainOnRead == [](C23_Buffer /\ C23_Empty) /\ [][C23_Drain /\ C23_Keep]_vars

\* GetEvents has returned two different events in one drain, while a command
\* was being sent, and the buffer is empty.
C23_Witness ==
    /\ Returned(Drainer, "GetEvents") /\ events = <<>>
    /\ Len(res[Drainer].evs) = 2 /\ res[Drainer].evs[1] # res[Drainer].evs[2]
    /\ pc[User] = "ReadString"

\* lines in flight that answer a command
Responses(q) == {i \in 1..Len(q) : q[i].js /\ q[i].ev = Absent /\ (q[i].ret # Absent \/ q[i].er)}

\* commands written whose response has not been read: those the server has
\* yet to answer and those whose answer is in flight
Outstanding == Len(toServer) + Cardinality(Responses(toClient))

\* C24: on one connection at most one command is outstanding, with earlier
\* calls ended by cancellation or a protocol error included, and a
\* SendCommand that returns a response returns the one to the command it
\* wrote.
C24_OneOutstanding ==
    /\ Outstanding <= 1
    /\ Returned(User, "SendCommand") /\ res[User].err = "nil" =>
          res[User].line.tag = myTag[User]

\* ------------------------------------------------------------------ SpecHandshake
\* One goroutine connects a Disconnected client while another calls
\* Connected() and SendCommand on the same client; the server greets (or
\* not) and answers.
Observer == CallerName[2]

InitHandshake ==
    /\ InitClient([Base EXCEPT !.files = {"qmp"}, !.listening = TRUE])
    /\ InitProcs({User, Observer})
    /\ InitSd /\ InitOs /\ InitMgr

ConnectStep(p) ==
    \/ Connect(p)
    \/ Connect_stat(p)
    \/ Connect_dial(p)
    \/ readGreeting(p)
    \/ sendCommandInternal(p)
    \/ getResponse(p)
    \/ ReadString(p)
    \/ Connect_caps(p)
    \/ Connect_unlock(p)

NextHandshake ==
    \/ CallOp(User, "Connect", {"query-status"}, {"live"})
    \/ ConnectStep(User)
    \/ CallOp(Observer, "Connected", {"query-status"}, {"live"})
    \/ Connected(Observer)
    \/ CallOp(Observer, "SendCommand", {"query-status"}, {"live"})
    \/ SendStep(Observer)
    \/ ServerRespond

SpecHandshake == InitHandshake /\ [][NextHandshake]_vars

\* Connect has dialed and is reading the greeting, negotiating, or about to
\* look at the outcome of the negotiation.
Handshaking ==
    /\ conn = "open" /\ lastOp[User] = "Connect"
    /\ pc[User] \in {"readGreeting", "sendCommandInternal", "getResponse", "ReadString",
                      "Connect_caps"}

\* C27: while a Connect is between its dial and the end of its handshake, it
\* holds the mutex, no other caller is inside Connected() or the write-read
\* section, no Connected() call returns true, and no command but
\* qmp_capabilities is written.
C27_Locked ==
    Handshaking =>
        /\ mu = User
        /\ ~InSection(Observer) /\ pc[Observer] # "SendCommand_unlock"
C27_NotObserved ==
    /\ pc[Observer] = "Connected" /\ pc'[Observer] # "Connected" /\ res'[Observer].b
          => conn = "open" /\ ~Handshaking
    /\ myTag'[Observer] # myTag[Observer] /\ myTag'[Observer] # NoTag
          => conn = "open" /\ ~Handshaking /\ sent' = Append(sent, cmd[Observer])
    /\ Handshaking /\ sent' # sent => sent' = Append(sent, "qmp_capabilities")
C27_NoConnectingState == [](C27_Locked) /\ [][C27_NotObserved]_vars

\* Another caller has called Connected() while Connect waits for the response
\* to qmp_capabilities; its call waits for the mutex.
C27_Witness ==
    /\ Handshaking /\ pc[User] = "ReadString" /\ sent = <<"qmp_capabilities">>
    /\ pc[Observer] = "Connected"

====
